---------------------------- MODULE Spec2Model ----------------------------
(***************************************************************************)
(* A model of the JMESPath query engine of                                 *)
(* include/jsoncons_ext/jmespath/jmespath.hpp: the character-at-a-time     *)
(* parser of jmespath_evaluator::evaluate with its three stacks, and the   *)
(* selector tree it builds together with each selector's evaluate.         *)
(*                                                                         *)
(* A character is a string of length one, a path is a sequence of          *)
(* characters.  One action models one iteration of the parser loop (one    *)
(* case of the switch over path_state); end_of_input models the code that  *)
(* follows the loop, the evaluation of the selector tree included.         *)
(***************************************************************************)
EXTENDS Integers, Sequences, FiniteSets, TLC

VARIABLES
    path,                    \* the expression text (path, length)
    root,                    \* the JSON document; read only at line 1713
    root_on_entry,           \* the JSON document as the caller passed it
    sort_order,              \* where std::sort leaves equivalent elements
    p,                       \* p_: 1-based cursor, p_ < end_input_ iff p <= Len(path)
    line,                    \* line_
    column,                  \* column_
    state_stack,             \* state_stack_
    structure_offset_stack,  \* structure_offset_stack_
    key_selector_stack,      \* key_selector_stack_
    buffer,                  \* buffer (a sequence of characters)
    a_slice,                 \* a_slice
    ec,                      \* the std::error_code, "" when unset
    pc,                      \* where the call is: "parse", or how it ended
    result                   \* the value evaluate returns

vars == <<path, root, root_on_entry, sort_order, p, line, column, state_stack, structure_offset_stack,
          key_selector_stack, buffer, a_slice, ec, pc, result>>

-----------------------------------------------------------------------------
(* Sequences *)

Back(s) == s[Len(s)]
PopBack(s) == SubSeq(s, 1, Len(s) - 1)
SetBack(s, x) == [s EXCEPT ![Len(s)] = x]
erase_from_below(s, pos) == SubSeq(s, 1, pos - 1)  \* erase(begin()+pos-1, end())
Erase(s, pos) == SubSeq(s, 1, pos)          \* erase(begin()+pos, end())

-----------------------------------------------------------------------------
(* The JSON value interface (jsoncons/json.hpp), as the selectors use it.  *)
(* A string is the sequence of its characters, an object the sequence of    *)
(* its members in iteration order.                                         *)

Null == [t |-> "null"]
Num(n) == [t |-> "num", n |-> n]
Str(s) == [t |-> "str", s |-> s]
Bool(b) == [t |-> "bool", b |-> b]
Arr(a) == [t |-> "arr", a |-> a]
Obj(o) == [t |-> "obj", o |-> o]
Member(k, v) == [key |-> k, value |-> v]

is_null(j) == j.t = "null"
is_number(j) == j.t = "num"
is_array(j) == j.t = "arr"
is_object(j) == j.t = "obj"
size(j) == IF is_array(j) THEN Len(j.a) ELSE IF is_object(j) THEN Len(j.o) ELSE 0
contains(j, k) == is_object(j) /\ \E i \in 1..Len(j.o) : j.o[i].key = k
at_key(j, k) == j.o[CHOOSE i \in 1..Len(j.o) : j.o[i].key = k].value
push_back(j, v) == Arr(Append(j.a, v))
try_emplace(j, k, v) == IF contains(j, k) THEN j ELSE Obj(Append(j.o, Member(k, v)))

(* Outcomes of an evaluation that is not a JSON value: the loop that never *)
(* ends, and the read of an array element that does not exist.             *)
Diverges == [t |-> "diverges"]
OutOfRange == [t |-> "out_of_range"]
Abnormal(j) == j.t \in {"diverges", "out_of_range"}

(* at(i) and operator[](i) on an array, i a std::size_t given as the       *)
(* integer it was converted from.                                          *)
at_index(j, i) == IF i >= 0 /\ i < Len(j.a) THEN j.a[i + 1] ELSE OutOfRange

-----------------------------------------------------------------------------
(* struct slice *)

NoEnd == [present |-> FALSE, value |-> 0]
SomeEnd(n) == [present |-> TRUE, value |-> n]
slice(start, end, step) == [start_ |-> start, end_ |-> end, step_ |-> step]
slice_default == slice(0, NoEnd, 1)

get_start(s, n) == IF s.start_ >= 0 THEN s.start_ ELSE n - s.start_

get_end(s, n) ==
    IF s.end_.present
    THEN LET len == IF s.end_.value >= 0 THEN s.end_.value ELSE n - s.end_.value
         IN IF len <= n THEN len ELSE n
    ELSE n

-----------------------------------------------------------------------------
(* Comparison of JSON values: == is structural, < orders two numbers by    *)
(* value and two strings character by character.  Ascii lists the          *)
(* printable characters in code order.                                     *)

BQ == "bq"   \* the back quote character, which a TLA+ string cannot hold

Ascii == <<" ", "!", "\"", "#", "$", "%", "&", "'", "(", ")", "*", "+",
           ",", "-", ".", "/", "0", "1", "2", "3", "4", "5", "6", "7",
           "8", "9", ":", ";", "<", "=", ">", "?", "@", "A", "B", "C",
           "D", "E", "F", "G", "H", "I", "J", "K", "L", "M", "N", "O",
           "P", "Q", "R", "S", "T", "U", "V", "W", "X", "Y", "Z", "[",
           "\\", "]", "^", "_", BQ, "a", "b", "c", "d", "e", "f", "g",
           "h", "i", "j", "k", "l", "m", "n", "o", "p", "q", "r", "s",
           "t", "u", "v", "w", "x", "y", "z", "{", "|", "}", "~">>
Ord(c) == CHOOSE i \in 1..Len(Ascii) : Ascii[i] = c

RECURSIVE string_less(_, _)
string_less(s1, s2) ==
    IF s2 = <<>> THEN FALSE
    ELSE IF s1 = <<>> THEN TRUE
    ELSE IF Head(s1) # Head(s2) THEN Ord(Head(s1)) < Ord(Head(s2))
    ELSE string_less(Tail(s1), Tail(s2))

RECURSIVE json_equal(_, _)
json_equal(l, r) ==
    IF l.t # r.t THEN FALSE
    ELSE IF is_array(l)
    THEN Len(l.a) = Len(r.a) /\ \A i \in 1..Len(l.a) : json_equal(l.a[i], r.a[i])
    ELSE IF is_object(l)
    THEN /\ Len(l.o) = Len(r.o)
         /\ \A i \in 1..Len(l.o) :
               contains(r, l.o[i].key) /\ json_equal(l.o[i].value, at_key(r, l.o[i].key))
    ELSE l = r

json_less(l, r) ==
    IF is_number(l) /\ is_number(r) THEN l.n < r.n
    ELSE IF l.t = "str" /\ r.t = "str" THEN string_less(l.s, r.s)
    ELSE FALSE

-----------------------------------------------------------------------------
(* The selector classes: constructors and add_selector.                    *)

new_sub_expression == [kind |-> "sub_expression", selectors_ |-> <<>>]
new_function_selector(f) == [kind |-> "function", f_ |-> f, selectors_ |-> <<>>]
new_list_projection(lhs) ==
    [kind |-> "list_projection", lhs_selector_ |-> lhs, rhs_selectors_ |-> <<>>]
new_pipe_selector(lhs) ==
    [kind |-> "pipe", lhs_selector_ |-> lhs, rhs_selectors_ |-> <<>>]
new_flatten_projection(lhs) ==
    [kind |-> "flatten_projection", lhs_selector_ |-> lhs, rhs_selectors_ |-> <<>>]
new_object_projection_selector(lhs) ==
    [kind |-> "object_projection", lhs_selector_ |-> lhs, rhs_selectors_ |-> <<>>]
new_filter_selector(cmp, lhs) ==
    [kind |-> "filter", cmp_ |-> cmp, lhs_selector_ |-> lhs, rhs_selectors_ |-> <<>>]
new_identifier_selector(name) == [kind |-> "identifier", identifier_ |-> name]
new_json_value_selector(j) == [kind |-> "json_value", j_ |-> j]
new_index_selector(index) == [kind |-> "index", index_ |-> index]
new_slice_selector(s) == [kind |-> "slice", slice_ |-> s]
new_multi_select_list_selector(selectors) ==
    [kind |-> "multi_select_list", selectors_ |-> selectors]
new_multi_select_hash_selector(key_selectors) ==
    [kind |-> "multi_select_hash", key_selectors_ |-> key_selectors]

(* key_selector(std::unique_ptr<selector_base>&&): the key starts empty.   *)
key_selector(selector) == [key |-> <<>>, selector |-> selector]

HasChain(sel) ==
    sel.kind \in {"list_projection", "pipe", "flatten_projection",
                  "object_projection", "filter"}

(* add_selector as it would be if a projection did not take the selector   *)
(* into its right-hand chain but were followed by it.                      *)
add_selector_after(sel, child) ==
    IF sel.kind = "function"
    THEN [sel EXCEPT !.selectors_ = Append(@, child)]
    ELSE IF sel.kind = "sub_expression"
    THEN [sel EXCEPT !.selectors_ = Append(@, child)]
    ELSE [kind |-> "sub_expression", selectors_ |-> <<sel, child>>]

add_selector(sel, child) ==
    IF sel.kind \in {"sub_expression", "function"}
    THEN [sel EXCEPT !.selectors_ = Append(@, child)]
    ELSE IF HasChain(sel)
    THEN [sel EXCEPT !.rhs_selectors_ = Append(@, child)]
    ELSE sel

-----------------------------------------------------------------------------
(* Evaluation.  evaluate(sel, val, e) is sel->evaluate(context, val, ec),  *)
(* e the error code on entry; it gives the value returned and the error    *)
(* code on return.                                                         *)

Out(v, e) == [v |-> v, ec |-> e]

RECURSIVE evaluate(_, _, _)
RECURSIVE apply_selectors(_, _, _)
RECURSIVE list_projection_loop(_, _, _, _, _)
RECURSIVE object_projection_loop(_, _, _, _, _)
RECURSIVE flatten_loop(_, _, _)
RECURSIVE filter_loop(_, _, _, _, _)
RECURSIVE multi_select_list_loop(_, _, _, _, _)
RECURSIVE multi_select_hash_loop(_, _, _, _, _)
RECURSIVE identifier_loop(_, _, _, _)
RECURSIVE slice_loop_up(_, _, _, _, _)
RECURSIVE slice_loop_down(_, _, _, _, _)
RECURSIVE sort_keys(_, _, _, _, _)
RECURSIVE insert_sorted(_, _, _)
RECURSIVE std_sort(_, _)

(* The loop that threads a value through a vector of selectors.            *)
apply_selectors(selectors, val, e) ==
    IF selectors = <<>> THEN Out(val, e)
    ELSE LET r == evaluate(Head(selectors), val, e)
         IN IF Abnormal(r.v) THEN r ELSE apply_selectors(Tail(selectors), r.v, r.ec)

(* sub_expression::evaluate with every selector applied to the input       *)
(* rather than to the value of the selector before it.                     *)
sub_expression_unthreaded(sel, val, e) ==
    IF sel.selectors_ = <<>> THEN Out(val, e)
    ELSE evaluate(Back(sel.selectors_), val, e)

sub_expression_evaluate(sel, val, e) == apply_selectors(sel.selectors_, val, e)

list_projection_loop(items, rhs, i, acc, e) ==
    IF i > Len(items) THEN Out(acc, e)
    ELSE LET r == apply_selectors(rhs, items[i], e)
         IN IF Abnormal(r.v) THEN r
            ELSE list_projection_loop(items, rhs, i + 1,
                     IF is_null(r.v) THEN acc ELSE push_back(acc, r.v), r.ec)

(* list_projection::evaluate without the test that the left-hand side is  *)
(* an array.                                                               *)
list_projection_unchecked(sel, val, e) ==
    LET lhs == evaluate(sel.lhs_selector_, val, e)
    IN IF Abnormal(lhs.v) \/ ~is_array(lhs.v) THEN lhs
       ELSE list_projection_loop(lhs.v.a, sel.rhs_selectors_, 1, Arr(<<>>), lhs.ec)

list_projection_evaluate(sel, val, e) ==
    LET lhs == evaluate(sel.lhs_selector_, val, e)
    IN IF Abnormal(lhs.v) THEN lhs
       ELSE IF ~is_array(lhs.v) THEN Out(Null, lhs.ec)
       ELSE list_projection_loop(lhs.v.a, sel.rhs_selectors_, 1, Arr(<<>>), lhs.ec)

(* pipe_selector::evaluate as it would be if the pipe did not end the      *)
(* projection: the right-hand chain on each element of the left-hand side. *)
pipe_selector_projects(sel, val, e) ==
    LET lhs == evaluate(sel.lhs_selector_, val, e)
    IN IF Abnormal(lhs.v) THEN lhs
       ELSE IF ~is_array(lhs.v) THEN Out(Null, lhs.ec)
       ELSE list_projection_loop(lhs.v.a, sel.rhs_selectors_, 1, Arr(<<>>), lhs.ec)

pipe_selector_evaluate(sel, val, e) ==
    LET lhs == evaluate(sel.lhs_selector_, val, e)
    IN IF Abnormal(lhs.v) THEN lhs
       ELSE IF ~is_array(lhs.v) THEN Out(Null, lhs.ec)
       ELSE apply_selectors(sel.rhs_selectors_, lhs.v, lhs.ec)

(* The first loop of flatten_projection::evaluate: currentp.               *)
flatten_loop(items, i, acc) ==
    IF i > Len(items) THEN acc
    ELSE flatten_loop(items, i + 1,
             IF is_array(items[i]) THEN Arr(acc.a \o items[i].a)
             ELSE push_back(acc, items[i]))

(* flatten_projection::evaluate without the first loop: the elements are   *)
(* taken as they are.                                                      *)
flatten_projection_unflattened(sel, val, e) ==
    LET lhs == evaluate(sel.lhs_selector_, val, e)
    IN IF Abnormal(lhs.v) THEN lhs
       ELSE IF ~is_array(lhs.v) THEN Out(Null, lhs.ec)
       ELSE list_projection_loop(lhs.v.a, sel.rhs_selectors_, 1, Arr(<<>>), lhs.ec)

flatten_projection_evaluate(sel, val, e) ==
    LET lhs == evaluate(sel.lhs_selector_, val, e)
    IN IF Abnormal(lhs.v) THEN lhs
       ELSE IF ~is_array(lhs.v) THEN Out(Null, lhs.ec)
       ELSE list_projection_loop(flatten_loop(lhs.v.a, 1, Arr(<<>>)).a,
                                 sel.rhs_selectors_, 1, Arr(<<>>), lhs.ec)

object_projection_loop(members, rhs, i, acc, e) ==
    IF i > Len(members) THEN Out(acc, e)
    ELSE LET r == apply_selectors(rhs, members[i].value, e)
         IN IF Abnormal(r.v) THEN r
            ELSE object_projection_loop(members, rhs, i + 1,
                     IF is_null(r.v) THEN acc ELSE push_back(acc, r.v), r.ec)

object_projection_selector_evaluate(sel, val, e) ==
    LET lhs == evaluate(sel.lhs_selector_, val, e)
    IN IF Abnormal(lhs.v) THEN lhs
       ELSE IF ~is_object(lhs.v) THEN Out(Null, lhs.ec)
       ELSE object_projection_loop(lhs.v.o, sel.rhs_selectors_, 1, Arr(<<>>), lhs.ec)

identifier_loop(items, name, i, acc) ==
    IF i > Len(items) THEN acc
    ELSE identifier_loop(items, name, i + 1,
             IF is_object(items[i]) /\ contains(items[i], name)
             THEN push_back(acc, at_key(items[i], name)) ELSE acc)

(* identifier_selector::evaluate reporting an error when the value is      *)
(* neither an object nor an array.                                         *)
identifier_selector_strict(sel, val, e) ==
    IF is_object(val) /\ contains(val, sel.identifier_)
    THEN Out(at_key(val, sel.identifier_), e)
    ELSE IF is_array(val)
    THEN Out(identifier_loop(val.a, sel.identifier_, 1, Arr(<<>>)), e)
    ELSE Out(Null, IF is_object(val) THEN e ELSE "invalid_type")

(* identifier_selector::evaluate without the branch for arrays.            *)
identifier_selector_object_only(sel, val, e) ==
    IF is_object(val) /\ contains(val, sel.identifier_)
    THEN Out(at_key(val, sel.identifier_), e)
    ELSE Out(Null, e)

identifier_selector_evaluate(sel, val, e) ==
    IF is_object(val) /\ contains(val, sel.identifier_)
    THEN Out(at_key(val, sel.identifier_), e)
    ELSE IF is_array(val)
    THEN Out(identifier_loop(val.a, sel.identifier_, 1, Arr(<<>>)), e)
    ELSE Out(Null, e)

json_value_selector_evaluate(sel, val, e) == Out(sel.j_, e)

index_selector_evaluate(sel, val, e) ==
    IF is_array(val)
    THEN LET slen == Len(val.a)
         IN IF sel.index_ >= 0 /\ sel.index_ < slen
            THEN Out(at_index(val, sel.index_), e)
            ELSE IF sel.index_ < 0 /\ (slen + sel.index_) < slen
            THEN Out(at_index(val, slen + sel.index_), e)
            ELSE Out(Null, e)
    ELSE Out(Null, e)

slice_loop_up(val, j, end, step, acc) ==
    IF ~(j < end) THEN acc
    ELSE LET x == at_index(val, j)
         IN IF Abnormal(x) THEN x
            ELSE slice_loop_up(val, j + step, end, step, push_back(acc, x))

slice_loop_down(val, j, start, step, acc) ==
    IF ~(j >= start) THEN acc
    ELSE LET x == at_index(val, j)
         IN IF Abnormal(x) THEN x
            ELSE slice_loop_down(val, j + step, start, step, push_back(acc, x))

(* slice_selector::evaluate with the downward loop started at end rather   *)
(* than at end - 1.                                                        *)
slice_selector_from_end(sel, val, e) ==
    IF is_array(val)
    THEN LET start == get_start(sel.slice_, Len(val.a))
             end == get_end(sel.slice_, Len(val.a))
             step == sel.slice_.step_
         IN IF step >= 0
            THEN IF step = 0 /\ start < end /\ ~Abnormal(at_index(val, start))
                 THEN Out(Diverges, e)
                 ELSE Out(slice_loop_up(val, start, end, step, Arr(<<>>)), e)
            ELSE Out(slice_loop_down(val, end, start, step, Arr(<<>>)), e)
    ELSE Out(Null, e)

(* With step 0 and start < end the first loop appends val[start] for ever. *)
slice_selector_evaluate(sel, val, e) ==
    IF is_array(val)
    THEN LET start == get_start(sel.slice_, Len(val.a))
             end == get_end(sel.slice_, Len(val.a))
             step == sel.slice_.step_
         IN IF step >= 0
            THEN IF step = 0 /\ start < end /\ ~Abnormal(at_index(val, start))
                 THEN Out(Diverges, e)
                 ELSE Out(slice_loop_up(val, start, end, step, Arr(<<>>)), e)
            ELSE Out(slice_loop_down(val, end - 1, start, step, Arr(<<>>)), e)
    ELSE Out(Null, e)

(* The comparators: an optional<bool>.                                     *)
optional(b) == [present |-> TRUE, value |-> b]
nullopt == [present |-> FALSE, value |-> FALSE]

cmp_eq(lhs, rhs) == optional(json_equal(lhs, rhs))
(* cmp_lt with the comparison of cmp_lte.                                  *)
cmp_lt_or_equal(lhs, rhs) ==
    IF is_number(lhs) /\ is_number(rhs) THEN optional(lhs.n <= rhs.n) ELSE nullopt

cmp_lt(lhs, rhs) ==
    IF is_number(lhs) /\ is_number(rhs) THEN optional(lhs.n < rhs.n) ELSE nullopt
cmp_lte(lhs, rhs) ==
    IF is_number(lhs) /\ is_number(rhs) THEN optional(lhs.n <= rhs.n) ELSE nullopt
cmp_gt(lhs, rhs) ==
    IF is_number(lhs) /\ is_number(rhs) THEN optional(lhs.n > rhs.n) ELSE nullopt
cmp_gte(lhs, rhs) ==
    IF is_number(lhs) /\ is_number(rhs) THEN optional(lhs.n >= rhs.n) ELSE nullopt
cmp_ne(lhs, rhs) == optional(~json_equal(lhs, rhs))

cmp_(op, lhs, rhs) ==
    CASE op = "cmp_eq" -> cmp_eq(lhs, rhs)
      [] op = "cmp_lt" -> cmp_lt(lhs, rhs)
      [] op = "cmp_lte" -> cmp_lte(lhs, rhs)
      [] op = "cmp_gt" -> cmp_gt(lhs, rhs)
      [] op = "cmp_gte" -> cmp_gte(lhs, rhs)
      [] op = "cmp_ne" -> cmp_ne(lhs, rhs)

filter_loop(items, sel, i, acc, e) ==
    IF i > Len(items) THEN Out(acc, e)
    ELSE LET lhs == evaluate(sel.lhs_selector_, items[i], e)
             rhs == apply_selectors(sel.rhs_selectors_, items[i], lhs.ec)
             r == cmp_(sel.cmp_, lhs.v, rhs.v)
         IN IF Abnormal(lhs.v) THEN lhs
            ELSE IF Abnormal(rhs.v) THEN rhs
            ELSE filter_loop(items, sel, i + 1,
                     IF r.present /\ r.value THEN push_back(acc, items[i]) ELSE acc,
                     rhs.ec)

filter_selector_evaluate(sel, val, e) ==
    IF is_array(val) THEN filter_loop(val.a, sel, 1, Arr(<<>>), e)
    ELSE Out(Null, e)

multi_select_list_loop(selectors, val, i, acc, e) ==
    IF i > Len(selectors) THEN Out(acc, e)
    ELSE LET r == evaluate(selectors[i], val, e)
         IN IF Abnormal(r.v) THEN r
            ELSE multi_select_list_loop(selectors, val, i + 1, push_back(acc, r.v), r.ec)

multi_select_list_selector_evaluate(sel, val, e) ==
    IF ~is_object(val) THEN Out(Null, e)
    ELSE multi_select_list_loop(sel.selectors_, val, 1, Arr(<<>>), e)

multi_select_hash_loop(key_selectors, val, i, acc, e) ==
    IF i > Len(key_selectors) THEN Out(acc, e)
    ELSE LET r == evaluate(key_selectors[i].selector, val, e)
         IN IF Abnormal(r.v) THEN r
            ELSE multi_select_hash_loop(key_selectors, val, i + 1,
                     try_emplace(acc, key_selectors[i].key, r.v), r.ec)

multi_select_hash_selector_evaluate(sel, val, e) ==
    IF ~is_object(val) THEN Out(Null, e)
    ELSE multi_select_hash_loop(sel.key_selectors_, val, 1, Obj(<<>>), e)

(* sort_by.  The comparator of std::sort evaluates the key selector on the *)
(* two elements it compares; sort_keys gives every element its key, which  *)
(* the comparator computes whenever the array has two elements or more.    *)
(* std_sort orders by insertion.  std::sort leaves equivalent elements, of  *)
(* which neither is less than the other, in an order it does not specify:  *)
(* sort_order says whether an element goes after or before its equivalents. *)
sort_keys(items, key_selector_, i, acc, e) ==
    IF i > Len(items) THEN Out([t |-> "keyed", a |-> acc], e)
    ELSE LET r == evaluate(key_selector_, items[i], e)
         IN IF Abnormal(r.v) THEN r
            ELSE sort_keys(items, key_selector_, i + 1,
                     Append(acc, [item |-> items[i], sort_key |-> r.v]), r.ec)

sort_orders == {"kept", "reversed"}

insert_sorted(sorted, x, i) ==
    IF i = 0 \/ IF sort_order = "kept" THEN ~json_less(x.sort_key, sorted[i].sort_key)
                ELSE json_less(sorted[i].sort_key, x.sort_key)
    THEN SubSeq(sorted, 1, i) \o <<x>> \o SubSeq(sorted, i + 1, Len(sorted))
    ELSE insert_sorted(sorted, x, i - 1)

std_sort(keyed, acc) ==
    IF keyed = <<>> THEN acc
    ELSE std_sort(Tail(keyed), insert_sorted(acc, Head(keyed), Len(acc)))

(* sort_by as it would be if a bad argument gave null without an error     *)
(* code.                                                                   *)
sort_by_silent(val, selectors, e) ==
    IF Len(selectors) # 2 THEN Out(Null, e)
    ELSE LET u == evaluate(selectors[1], val, e)
         IN IF Abnormal(u.v) THEN u
            ELSE IF ~is_array(u.v) THEN Out(Null, u.ec)
            ELSE IF Len(u.v.a) < 2 THEN u
            ELSE LET keyed == sort_keys(u.v.a, selectors[2], 1, <<>>, u.ec)
                 IN IF Abnormal(keyed.v) THEN keyed
                    ELSE LET sorted == std_sort(keyed.v.a, <<>>)
                         IN Out(Arr([i \in 1..Len(sorted) |-> sorted[i].item]), keyed.ec)

sort_by(val, selectors, e) ==
    IF Len(selectors) # 2 THEN Out(Null, "invalid_argument")
    ELSE LET u == evaluate(selectors[1], val, e)
         IN IF Abnormal(u.v) THEN u
            ELSE IF ~is_array(u.v) THEN Out(Null, "invalid_argument")
            ELSE IF Len(u.v.a) < 2 THEN u
            ELSE LET keyed == sort_keys(u.v.a, selectors[2], 1, <<>>, u.ec)
                 IN IF Abnormal(keyed.v) THEN keyed
                    ELSE LET sorted == std_sort(keyed.v.a, <<>>)
                         IN Out(Arr([i \in 1..Len(sorted) |-> sorted[i].item]), keyed.ec)

(* A registry that holds a second name.                                    *)
functions_with_foo == {<<"s", "o", "r", "t", "_", "b", "y">>, <<"f", "o", "o">>}

(* functions_: the registry holds sort_by alone.                           *)
functions_ == {<<"s", "o", "r", "t", "_", "b", "y">>}

function_selector_evaluate(sel, val, e) == sort_by(val, sel.selectors_, e)

(* context.new_instance(u): a Json of the arena, constructed as a copy of  *)
(* u.  same_instance is what sort_by would work on if it took u itself.    *)
same_instance(u) == [of |-> "input", value |-> u]

new_instance(u) == [of |-> "arena", value |-> u]

(* val with every array equal to old replaced by new.                      *)
RECURSIVE Replaced(_, _, _)
Replaced(val, old, new) ==
    IF val = old THEN new
    ELSE IF is_array(val)
    THEN Arr([i \in 1..Len(val.a) |-> Replaced(val.a[i], old, new)])
    ELSE IF is_object(val)
    THEN Obj([i \in 1..Len(val.o) |->
                 Member(val.o[i].key, Replaced(val.o[i].value, old, new))])
    ELSE val

(* What sort_by leaves of the value it was called on: std::sort permutes   *)
(* the elements of v, the instance of line 205, in place, and u is part of *)
(* val whenever the first argument selects a member or an element of it.   *)
sort_by_leaves(val, selectors, e) ==
    IF Len(selectors) # 2 THEN val
    ELSE LET u == evaluate(selectors[1], val, e)
             sorted == sort_by(val, selectors, e)
         IN IF Abnormal(u.v) \/ ~is_array(u.v) \/ Abnormal(sorted.v) THEN val
            ELSE IF new_instance(u.v).of = "arena" THEN val
            ELSE Replaced(val, u.v, sorted.v)

(* What the evaluation of the expression leaves of the document: every     *)
(* selector takes val by reference to const and writes to instances of the *)
(* arena alone, and sort_by, called on the document when the expression is *)
(* a function call, is the only one to reorder an existing array.          *)
evaluate_leaves(sel, val, e) ==
    IF sel.kind = "function" THEN sort_by_leaves(val, sel.selectors_, e) ELSE val

evaluate(sel, val, e) ==
    CASE sel.kind = "sub_expression" -> sub_expression_evaluate(sel, val, e)
      [] sel.kind = "function" -> function_selector_evaluate(sel, val, e)
      [] sel.kind = "list_projection" -> list_projection_evaluate(sel, val, e)
      [] sel.kind = "pipe" -> pipe_selector_evaluate(sel, val, e)
      [] sel.kind = "flatten_projection" -> flatten_projection_evaluate(sel, val, e)
      [] sel.kind = "object_projection" -> object_projection_selector_evaluate(sel, val, e)
      [] sel.kind = "identifier" -> identifier_selector_evaluate(sel, val, e)
      [] sel.kind = "json_value" -> json_value_selector_evaluate(sel, val, e)
      [] sel.kind = "index" -> index_selector_evaluate(sel, val, e)
      [] sel.kind = "slice" -> slice_selector_evaluate(sel, val, e)
      [] sel.kind = "filter" -> filter_selector_evaluate(sel, val, e)
      [] sel.kind = "multi_select_list" -> multi_select_list_selector_evaluate(sel, val, e)
      [] sel.kind = "multi_select_hash" -> multi_select_hash_selector_evaluate(sel, val, e)

-----------------------------------------------------------------------------
(* Characters and the conversions of the text buffer.                      *)

IsSpace(c) == c \in {" ", "\t", "\r", "\n"}
IsDigit(c) == Ord("0") <= Ord(c) /\ Ord(c) <= Ord("9")
IsAlpha(c) ==
    \/ Ord("A") <= Ord(c) /\ Ord(c) <= Ord("Z")
    \/ Ord("a") <= Ord(c) /\ Ord(c) <= Ord("z")
    \/ c = "_"

RECURSIVE digits_value(_, _)
digits_value(ds, acc) ==
    IF ds = <<>> THEN acc
    ELSE digits_value(Tail(ds), 10 * acc + (Ord(Head(ds)) - Ord("0")))

AllDigits(ds) == ds # <<>> /\ \A i \in 1..Len(ds) : IsDigit(ds[i])

(* jsoncons::detail::to_integer<int64_t>: an optional minus sign and one   *)
(* digit or more.  The texts of this model stay far below 2^63.            *)
to_integer(buf) ==
    LET neg == buf # <<>> /\ Head(buf) = "-"
        ds == IF neg THEN Tail(buf) ELSE buf
    IN IF AllDigits(ds)
       THEN [ok |-> TRUE, value |-> IF neg THEN 0 - digits_value(ds, 0) ELSE digits_value(ds, 0)]
       ELSE [ok |-> FALSE, value |-> 0]

(* Json::parse on the texts the paths of this model hold between back      *)
(* quotes: an integer, a string without escapes, null, true, false.  Any   *)
(* other text of the model is no JSON text and makes Json::parse throw.    *)
IsJsonNumber(buf) ==
    LET ds == IF buf # <<>> /\ Head(buf) = "-" THEN Tail(buf) ELSE buf
    IN AllDigits(ds) /\ (Len(ds) > 1 => Head(ds) # "0")
IsJsonString(buf) ==
    /\ Len(buf) >= 2 /\ Head(buf) = "\"" /\ Back(buf) = "\""
    /\ \A i \in 2..(Len(buf) - 1) : buf[i] \notin {"\"", "\\"}
json_parse(buf) ==
    IF IsJsonNumber(buf) THEN [ok |-> TRUE, value |-> Num(to_integer(buf).value)]
    ELSE IF IsJsonString(buf) THEN [ok |-> TRUE, value |-> Str(SubSeq(buf, 2, Len(buf) - 1))]
    ELSE IF buf = <<"n", "u", "l", "l">> THEN [ok |-> TRUE, value |-> Null]
    ELSE IF buf = <<"t", "r", "u", "e">> THEN [ok |-> TRUE, value |-> Bool(TRUE)]
    ELSE IF buf = <<"f", "a", "l", "s", "e">> THEN [ok |-> TRUE, value |-> Bool(FALSE)]
    ELSE [ok |-> FALSE, value |-> Null]

-----------------------------------------------------------------------------
(* The parser loop of jmespath_evaluator::evaluate.  Cur is the parser's   *)
(* state at the top of an iteration; every case of the switch gives the    *)
(* state after it, and Commit installs it.  out says how the iteration     *)
(* left the loop body: "parse" (break, loop again), "done" (return         *)
(* result, with ec set), "throw" (an exception leaves evaluate),           *)
(* "undefined" (the behaviour of the iteration is undefined).              *)

Cur == [ss |-> state_stack, os |-> structure_offset_stack, ks |-> key_selector_stack,
        buf |-> buffer, sl |-> a_slice, p |-> p, line |-> line, col |-> column,
        ec |-> "", out |-> "parse"]

InLoop(st) ==
    /\ pc = "parse"
    /\ p <= Len(path)
    /\ state_stack # <<>>
    /\ Back(state_stack) = st

(* An iteration that leaves every variable as it found it is repeated for  *)
(* ever: the call never returns.                                           *)
Commit(n) ==
    /\ state_stack' = n.ss
    /\ structure_offset_stack' = n.os
    /\ key_selector_stack' = n.ks
    /\ buffer' = n.buf
    /\ a_slice' = n.sl
    /\ p' = n.p
    /\ line' = n.line
    /\ column' = n.col
    /\ ec' = n.ec
    /\ pc' = IF n = Cur THEN "diverge" ELSE n.out
    /\ UNCHANGED <<path, root, root_on_entry, sort_order, result>>

Advance(n) == [n EXCEPT !.p = @ + 1, !.col = @ + 1]       \* ++p_; ++column_;
Fail(n, code) == [n EXCEPT !.ec = code, !.out = "done"]   \* ec = code; return result;
Throw(n) == [n EXCEPT !.out = "throw"]
(* back() of an empty vector, or an index past the end of one.             *)
Undefined(n) == [n EXCEPT !.out = "undefined"]
Push(n, st) == [n EXCEPT !.ss = Append(@, st)]            \* state_stack_.emplace_back
Pop(n) == [n EXCEPT !.ss = PopBack(@)]                    \* state_stack_.pop_back
SetState(n, st) == [n EXCEPT !.ss = SetBack(@, st)]       \* state_stack_.back() = st
ClearBuffer(n) == [n EXCEPT !.buf = <<>>]
PushChar(n, c) == [n EXCEPT !.buf = Append(@, c)]         \* buffer.push_back

(* key_selector_stack_.back().selector->add_selector(child)                *)
AddToBack(n, child) ==
    [n EXCEPT !.ks = SetBack(@, [Back(@) EXCEPT !.selector = add_selector(@, child)])]
(* key_selector_stack_.back() = key_selector(selector)                     *)
ReplaceBack(n, selector) == [n EXCEPT !.ks = SetBack(@, key_selector(selector))]
(* key_selector_stack_.emplace_back(make_unique_ptr<sub_expression>())     *)
PushSelector(n) == [n EXCEPT !.ks = Append(@, key_selector(new_sub_expression))]
(* structure_offset_stack_.push_back(key_selector_stack_.size())           *)
PushOffset(n) == [n EXCEPT !.os = Append(@, Len(n.ks))]

advance_past_space_character(n) ==
    LET c == path[n.p]
    IN CASE c \in {" ", "\t"} -> Advance(n)
         [] c = "\r" ->
              [n EXCEPT !.p = IF n.p + 1 <= Len(path) /\ path[n.p + 1] = "\n"
                              THEN n.p + 2 ELSE n.p + 1,
                        !.line = @ + 1, !.col = 1]
         [] c = "\n" -> [n EXCEPT !.p = @ + 1, !.line = @ + 1, !.col = 1]
         [] OTHER -> n

path_state_start ==
    /\ InLoop("start")
    /\ Commit(Push(SetState(Cur, "sub_expression"), "expression"))

path_state_expression ==
    /\ InLoop("expression")
    /\ Commit(LET c == path[p]
              IN CASE IsSpace(c) -> advance_past_space_character(Cur)
                   [] c = "\"" -> Advance(Push(Push(Pop(Cur), "val_expr"), "quoted_string"))
                   [] c = "'" -> Advance(Push(Pop(Cur), "raw_string"))
                   [] c = BQ -> Advance(Push(Pop(Cur), "json_value"))
                   [] c = "[" -> Advance(Push(Pop(Cur), "bracket_specifier"))
                   [] c = "{" -> Advance(Push(Pop(Cur), "multi_select_hash"))
                   [] c = "*" ->
                        Advance(Push(ReplaceBack(Cur,
                            new_object_projection_selector(Back(key_selector_stack).selector)),
                            "expect_dot"))
                   [] OTHER ->
                        IF IsAlpha(c)
                        THEN Advance(PushChar(Push(Push(Pop(Cur),
                                 "identifier_or_function_expr"), "unquoted_string"), c))
                        ELSE Fail(Cur, "expected_identifier"))

path_state_key_expr ==
    /\ InLoop("key_expr")
    /\ Commit(Pop(ClearBuffer(
           [Cur EXCEPT !.ks = SetBack(@, [Back(@) EXCEPT !.key = buffer])])))

path_state_val_expr ==
    /\ InLoop("val_expr")
    /\ Commit(Pop(ClearBuffer(AddToBack(Cur, new_identifier_selector(buffer)))))

path_state_identifier_or_function_expr ==
    /\ InLoop("identifier_or_function_expr")
    /\ Commit(IF path[p] = "("
              THEN IF buffer \notin functions_
                   THEN Fail(ClearBuffer(Cur), "function_name_not_found")
                   ELSE Advance(Push(SetState(PushSelector(PushOffset(
                            ReplaceBack(ClearBuffer(Cur), new_function_selector(buffer)))),
                            "arg_or_right_paren"), "expression"))
              ELSE Pop(ClearBuffer(AddToBack(Cur, new_identifier_selector(buffer)))))

(* ')' closes the argument list: the selectors from the saved offset on    *)
(* become the arguments of the function selector below them.               *)
RECURSIVE add_selectors(_, _, _, _)
add_selectors(sel, ks, i, last) ==
    IF i > last THEN sel
    ELSE add_selectors(add_selector(sel, ks[i].selector), ks, i + 1, last)

CloseFunction(n) ==
    IF n.os = <<>> \/ Back(n.os) < 1 \/ Back(n.os) > Len(n.ks) THEN Undefined(n)
    ELSE LET pos == Back(n.os)
             f == add_selectors(n.ks[pos].selector, n.ks, pos + 1, Len(n.ks))
         IN [n EXCEPT !.os = PopBack(@),
                      !.ks = [Erase(@, pos) EXCEPT ![pos] = [@ EXCEPT !.selector = f]]]

path_state_arg_or_right_paren ==
    /\ InLoop("arg_or_right_paren")
    /\ Commit(LET c == path[p]
              IN CASE IsSpace(c) -> advance_past_space_character(Cur)
                   [] c = "," -> Advance(Push(PushSelector(Cur), "expression"))
                   [] c = ")" -> Advance(Pop(CloseFunction(Cur)))
                   [] OTHER -> Cur)

path_state_quoted_string ==
    /\ InLoop("quoted_string")
    /\ Commit(LET c == path[p]
              IN CASE c = "\"" -> Advance(Pop(Cur))
                   [] c = "\\" ->
                        IF p + 1 <= Len(path)
                        THEN Advance(PushChar(Advance(Cur), path[p + 1]))
                        ELSE Fail(Cur, "unexpected_end_of_input")
                   [] OTHER -> Advance(PushChar(Cur, c)))

path_state_unquoted_string ==
    /\ InLoop("unquoted_string")
    /\ Commit(LET c == path[p]
              IN IF IsSpace(c) THEN advance_past_space_character(Pop(Cur))
                 ELSE IF IsDigit(c) \/ IsAlpha(c) THEN Advance(PushChar(Cur, c))
                 ELSE Pop(Cur))

path_state_raw_string ==
    /\ InLoop("raw_string")
    /\ Commit(LET c == path[p]
              IN CASE c = "'" ->
                        Advance(Pop(ClearBuffer(
                            AddToBack(Cur, new_json_value_selector(Str(buffer))))))
                   [] c = "\\" -> Advance(Cur)
                   [] OTHER -> Advance(PushChar(Cur, c)))

path_state_json_value ==
    /\ InLoop("json_value")
    /\ Commit(LET c == path[p]
              IN CASE c = BQ ->
                        IF json_parse(buffer).ok
                        THEN Advance(Pop(ClearBuffer(AddToBack(Cur,
                                 new_json_value_selector(json_parse(buffer).value)))))
                        ELSE Throw(Cur)
                   [] c = "\\" -> Cur
                   [] OTHER -> Advance(PushChar(Cur, c)))

path_state_number ==
    /\ InLoop("number")
    /\ Commit(IF path[p] = "-"
              THEN Advance(SetState(PushChar(Cur, "-"), "digit"))
              ELSE SetState(Cur, "digit"))

path_state_digit ==
    /\ InLoop("digit")
    /\ Commit(IF IsDigit(path[p]) THEN Advance(PushChar(Cur, path[p])) ELSE Pop(Cur))

path_state_sub_expression ==
    /\ InLoop("sub_expression")
    /\ Commit(LET c == path[p]
              IN CASE IsSpace(c) -> advance_past_space_character(Cur)
                   [] c = "." -> Push(Advance(Cur), "expression")
                   [] c = "|" ->
                        Push(ReplaceBack(Advance(Cur),
                            new_pipe_selector(Back(key_selector_stack).selector)),
                            "expression")
                   [] c \in {"[", "{"} -> Push(Cur, "expression")
                   [] OTHER -> Fail(Cur, "expected_index"))

path_state_bracket_specifier ==
    /\ InLoop("bracket_specifier")
    /\ Commit(LET c == path[p]
              IN CASE c = "*" ->
                        Advance(SetState(ReplaceBack(Cur,
                            new_list_projection(Back(key_selector_stack).selector)),
                            "bracket_specifier4"))
                   [] c = "]" ->
                        Advance(Pop(ReplaceBack(Cur,
                            new_flatten_projection(Back(key_selector_stack).selector))))
                   [] c = "?" ->
                        Advance(Push(SetState(PushSelector(PushOffset(Cur)),
                            "comparator"), "expression"))
                   [] c = ":" -> Advance(Push(SetState(Cur, "bracket_specifier2"), "number"))
                   [] c = "-" \/ IsDigit(c) ->
                        Push(SetState(Cur, "bracket_specifier9"), "number")
                   [] OTHER ->
                        Push(SetState(PushSelector(PushOffset(ReplaceBack(Cur,
                            new_list_projection(Back(key_selector_stack).selector)))),
                            "expect_right_bracket4"), "expression"))

path_state_multi_select_hash ==
    /\ InLoop("multi_select_hash")
    /\ Commit(LET c == path[p]
              IN IF c \in {"*", "]", "?", ":", "-"} \/ IsDigit(c)
                 THEN Cur
                 ELSE SetState(PushSelector(PushOffset(ReplaceBack(Cur,
                          new_list_projection(Back(key_selector_stack).selector)))),
                          "key_val_expr"))

path_state_bracket_specifier9 ==
    /\ InLoop("bracket_specifier9")
    /\ Commit(LET c == path[p]
                  r == to_integer(buffer)
              IN CASE c = "]" ->
                        IF buffer = <<>>
                        THEN Advance(Pop(ReplaceBack(Cur,
                                 new_flatten_projection(Back(key_selector_stack).selector))))
                        ELSE IF ~r.ok THEN Fail(Cur, "invalid_number")
                        ELSE Advance(Pop(ClearBuffer(
                                 AddToBack(Cur, new_index_selector(r.value)))))
                   [] c = ":" ->
                        IF buffer = <<>>
                        THEN Advance(Push(SetState(Cur, "bracket_specifier2"), "number"))
                        ELSE IF ~r.ok THEN Fail(Cur, "invalid_number")
                        ELSE Advance(Push(SetState(ClearBuffer(
                                 [Cur EXCEPT !.sl.start_ = r.value]),
                                 "bracket_specifier2"), "number"))
                   [] OTHER -> Fail(Cur, "expected_right_bracket"))

path_state_bracket_specifier2 ==
    /\ InLoop("bracket_specifier2")
    /\ Commit(LET c == path[p]
                  r == to_integer(buffer)
                  n == IF buffer = <<>> THEN Cur
                       ELSE ClearBuffer([Cur EXCEPT !.sl.end_ = SomeEnd(r.value)])
              IN IF buffer # <<>> /\ ~r.ok THEN Fail(Cur, "invalid_number")
                 ELSE CASE c = "]" ->
                             Advance(Pop([AddToBack(n, new_slice_selector(n.sl))
                                          EXCEPT !.sl = slice_default]))
                        [] c = ":" ->
                             Advance(Push(SetState(n, "bracket_specifier3"), "number"))
                        [] OTHER -> Fail(n, "expected_right_bracket"))

path_state_bracket_specifier3 ==
    /\ InLoop("bracket_specifier3")
    /\ Commit(LET c == path[p]
                  r == to_integer(buffer)
                  n == IF buffer = <<>> THEN Cur
                       ELSE ClearBuffer([Cur EXCEPT !.sl.step_ = r.value])
              IN IF buffer # <<>> /\ ~r.ok THEN Fail(Cur, "invalid_number")
                 ELSE IF c = "]"
                 THEN Advance(Pop(ClearBuffer([AddToBack(n, new_slice_selector(n.sl))
                                               EXCEPT !.sl = slice_default])))
                 ELSE Fail(n, "expected_right_bracket"))

path_state_bracket_specifier4 ==
    /\ InLoop("bracket_specifier4")
    /\ Commit(IF path[p] = "]" THEN Advance(Pop(Cur))
              ELSE Fail(Cur, "expected_right_bracket"))

path_state_key_val_expr ==
    /\ InLoop("key_val_expr")
    /\ Commit(LET c == path[p]
              IN CASE IsSpace(c) -> advance_past_space_character(Cur)
                   [] c = "\"" ->
                        Advance(Push(Push(SetState(Cur, "expect_colon"), "key_expr"),
                                     "quoted_string"))
                   [] c = "'" -> Advance(Push(SetState(Cur, "expect_colon"), "raw_string"))
                   [] OTHER ->
                        IF IsAlpha(c)
                        THEN Advance(PushChar(Push(Push(SetState(Cur, "expect_colon"),
                                 "key_expr"), "unquoted_string"), c))
                        ELSE Fail(Cur, "expected_key"))

path_state_comparator ==
    /\ InLoop("comparator")
    /\ Commit(LET c == path[p]
              IN CASE c = "." -> Push(SetState(Advance(Cur), "comparator"), "expression")
                   [] c = "<" -> Advance(SetState(Cur, "cmp_lt_or_lte"))
                   [] c = "=" -> Advance(SetState(Cur, "cmp_eq"))
                   [] c = ">" -> Advance(SetState(Cur, "cmp_gt_or_gte"))
                   [] c = "!" -> Advance(SetState(Cur, "cmp_ne"))
                   [] OTHER -> Fail(Cur, "expected_comparator"))

(* key_selector_stack_.back() = key_selector(filter_selector<cmp>(back)),  *)
(* then expect_right_bracket with expression above it.                     *)
BeginFilterRhs(n, cmp) ==
    Push(SetState(ReplaceBack(n, new_filter_selector(cmp, Back(n.ks).selector)),
                  "expect_right_bracket"), "expression")

path_state_cmp_lt_or_lte ==
    /\ InLoop("cmp_lt_or_lte")
    /\ Commit(IF path[p] = "=" THEN Advance(BeginFilterRhs(Cur, "cmp_lte"))
              ELSE BeginFilterRhs(Cur, "cmp_lt"))

path_state_cmp_eq ==
    /\ InLoop("cmp_eq")
    /\ Commit(IF path[p] = "=" THEN Advance(BeginFilterRhs(Cur, "cmp_eq"))
              ELSE Fail(Cur, "expected_comparator"))

path_state_cmp_gt_or_gte ==
    /\ InLoop("cmp_gt_or_gte")
    /\ Commit(IF path[p] = "=" THEN Advance(BeginFilterRhs(Cur, "cmp_gte"))
              ELSE BeginFilterRhs(Cur, "cmp_gt"))

path_state_cmp_ne ==
    /\ InLoop("cmp_ne")
    /\ Commit(IF path[p] = "=" THEN Advance(BeginFilterRhs(Cur, "cmp_ne"))
              ELSE Fail(Cur, "expected_comparator"))

path_state_expect_dot ==
    /\ InLoop("expect_dot")
    /\ Commit(LET c == path[p]
              IN CASE IsSpace(c) -> advance_past_space_character(Cur)
                   [] c = "." -> Advance(Pop(Cur))
                   [] OTHER -> Fail(Cur, "expected_dot"))

(* ']' closes a filter: the entry at the saved offset is the filter, the   *)
(* entries above it join its chain, and the entry below it becomes a       *)
(* sub_expression of itself followed by the filter.                        *)
CloseFilter(n) ==
    IF n.os = <<>> \/ Back(n.os) < 1 \/ Back(n.os) >= Len(n.ks) THEN Undefined(n)
    ELSE LET pos == Back(n.os)
             f == add_selectors(n.ks[pos + 1].selector, n.ks, pos + 2, Len(n.ks))
             q == add_selector(add_selector(new_sub_expression, n.ks[pos].selector), f)
         IN [n EXCEPT !.os = PopBack(@),
                      !.ks = SetBack(Erase(@, pos), key_selector(q))]

path_state_expect_right_bracket ==
    /\ InLoop("expect_right_bracket")
    /\ Commit(LET c == path[p]
              IN CASE IsSpace(c) -> advance_past_space_character(Cur)
                   [] c = "]" -> Advance(CloseFilter(Pop(Cur)))
                   [] OTHER -> Fail(Cur, "expected_right_bracket"))

(* ']' closes a multi-select-list: the entries from the saved offset on    *)
(* become its children, and it is added to the entry below them.           *)
CloseList(n) ==
    IF n.os = <<>> \/ Back(n.os) < 1 \/ Back(n.os) > Len(n.ks) THEN Undefined(n)
    ELSE LET pos == Back(n.os)
             selectors == [i \in 1..(Len(n.ks) - pos) |-> n.ks[pos + i].selector]
         IN AddToBack([n EXCEPT !.os = PopBack(@), !.ks = Erase(@, pos)],
                      new_multi_select_list_selector(selectors))

path_state_expect_right_bracket4 ==
    /\ InLoop("expect_right_bracket4")
    /\ Commit(LET c == path[p]
              IN CASE IsSpace(c) -> advance_past_space_character(Cur)
                   [] c = "," -> Advance(Push(PushSelector(Cur), "expression"))
                   [] c = "[" -> Push(Cur, "expression")
                   [] c = "." -> Advance(Push(Cur, "expression"))
                   [] c = "|" ->
                        Push(ReplaceBack(Advance(Cur),
                            new_pipe_selector(Back(key_selector_stack).selector)),
                            "expression")
                   [] c = "]" -> Advance(CloseList(Pop(Cur)))
                   [] OTHER -> Fail(Cur, "expected_right_bracket"))

(* '}' closes a multi-select-hash: the entries from the saved offset on,   *)
(* keys included, become its members.                                      *)
CloseHash(n) ==
    IF n.os = <<>> \/ Back(n.os) < 1 \/ Back(n.os) > Len(n.ks) THEN Undefined(n)
    ELSE LET pos == Back(n.os)
             key_selectors == [i \in 1..(Len(n.ks) - pos) |-> n.ks[pos + i]]
         IN AddToBack([n EXCEPT !.os = PopBack(@), !.ks = Erase(@, pos)],
                      new_multi_select_hash_selector(key_selectors))

path_state_expect_right_brace ==
    /\ InLoop("expect_right_brace")
    /\ Commit(LET c == path[p]
              IN CASE IsSpace(c) -> advance_past_space_character(Cur)
                   [] c = "," -> Advance(SetState(PushSelector(Cur), "key_val_expr"))
                   [] c \in {"[", "{"} -> Push(Cur, "expression")
                   [] c = "." -> Advance(Push(Cur, "expression"))
                   [] c = "}" -> Advance(CloseHash(Pop(Cur)))
                   [] OTHER -> Fail(Cur, "expected_right_brace"))

path_state_expect_colon ==
    /\ InLoop("expect_colon")
    /\ Commit(LET c == path[p]
              IN CASE IsSpace(c) -> advance_past_space_character(Cur)
                   [] c = ":" -> Advance(Push(SetState(Cur, "expect_right_brace"), "expression"))
                   [] OTHER -> Fail(Cur, "expected_colon"))

-----------------------------------------------------------------------------
(* After the loop: lines 1691 to 1714.  The document is drawn here, where  *)
(* the call first reads it.                                                *)

(* The closing of an identifier that the end of the text cut short.        *)
CloseIdentifier(n) ==
    IF Len(n.ss) >= 3 /\ Back(n.ss) = "unquoted_string"
    THEN IF Back(PopBack(n.ss)) \in {"val_expr", "identifier_or_function_expr"}
         THEN Pop(ClearBuffer(AddToBack(Pop(n), new_identifier_selector(n.buf))))
         ELSE Pop(n)
    ELSE n

ReturnOf(o) ==
    IF o.v = Diverges THEN "diverge" ELSE IF o.v = OutOfRange THEN "throw" ELSE "done"

-----------------------------------------------------------------------------
(* The inputs: the paths and the documents.                                *)

MaxLen == 3     \* every text over Alphabet of at most this length is a path
MaxArr == 2     \* every array over Elements of at most this length is a document

Alphabet == {"a", ".", "[", "]", "*", "|", "{", "}", ",", ":", "0", "?", "="}

ShortPaths == UNION {[1..n -> Alphabet] : n \in 0..MaxLen}

Scenarios ==
    {
       <<"[", "*", "]">>,
       <<"a", "[", "*", "]">>,
       <<"[", "*", "]", ".", "a">>,
       <<"[", "*", "]", ".", "b">>,
       <<"[", "*", "]", ".", "x">>,
       <<"[", "*", "]", "[", "0", "]">>,
       <<"[", "*", "]", "[", "1", "]">>,
       <<"[", "*", "]", "[", "-", "1", "]">>,
       <<"[", "*", "]", "[", "0", ":", "1", "]">>,
       <<"[", "*", "]", "[", "1", ":", "]">>,
       <<"[", "*", "]", ".", "a", ".", "b">>,
       <<"[", "*", "]", ".", "a", "[", "0", "]">>,
       <<"a", "[", "*", "]", ".", "b">>,
       <<"[", "]", ".", "a">>,
       <<"[", "]", "[", "0", "]">>,
       <<"[", "]", "[", "1", ":", "]">>,
       <<"[", "]">>,
       <<"*", ".", "a">>,
       <<"*", ".", "b">>,
       <<"*", ".", "a", "[", "0", "]">>,
       <<"*", ".", "x", "[", "1", ":", "]">>,
       <<"[", "*", "]", ".", "x", "[", "0", "]">>,
       <<"[", "*", "]", ".", "x", " ", "|", " ", "[", "0", "]">>,
       <<"[", "*", "]", ".", "x", "|", "[", "0", "]">>,
       <<"[", "*", "]", ".", "a", " ", "|", " ", "[", "0", "]">>,
       <<"[", "*", "]", " ", "|", " ", "[", "0", "]">>,
       <<"[", "]", " ", "|", " ", "[", "0", "]">>,
       <<"[", "*", "]", ".", "a", "|", "[", "1", ":", "]">>,
       <<"*", ".", "a", " ", "|", " ", "[", "0", "]">>,
       <<"{", "x", ":", " ", "a", ",", " ", "y", ":", " ", "b", "}">>,
       <<"{", "a", ":", "a", "}">>,
       <<"s", "o", "r", "t", "_", "b", "y", "(", "x", "s", ",", " ", "&", "k", ")">>,
       <<"s", "o", "r", "t", "_", "b", "y", "(", "x", "s", ",", "k", ")">>,
       <<"s", "o", "r", "t", "_", "b", "y", "(", "a", ")">>,
       <<"[", "a", ",", " ", "b", "]">>,
       <<"[", "?", "a", "<", "b", "]">>,
       <<"[", "?", "a", "<", "=", "b", "]">>,
       <<"[", "?", "a", ">", "b", "]">>,
       <<"[", "?", "a", ">", "=", "b", "]">>,
       <<"[", "?", "a", "=", "=", "b", "]">>,
       <<"[", "?", "a", "!", "=", "b", "]">>,
       <<"[", "?", "a", "<", BQ, "1", BQ, "]">>,
       <<"[", "?", "a", ">", "=", BQ, "2", BQ, "]">>,
       <<"[", "?", "a", "=", "=", BQ, "1", BQ, "]">>,
       <<"[", "?", "a", "!", "=", "'", "s", "'", "]">>,
       <<"[", "?", "a", "=", "=", "'", "s", "'", "]">>,
       <<"[", "?", "b", "<", "=", "a", "]">>,
       <<"x", "s", "[", "?", "n", " ", ">", " ", BQ, "1", BQ, "]", ".", "n">>,
       <<"[", "-", "1", ":", "]">>,
       <<"[", "-", "2", ":", "]">>,
       <<"[", "-", "3", ":", "]">>,
       <<"[", "1", ":", "]">>,
       <<"[", ":", "-", "1", "]">>,
       <<"[", ":", "-", "2", "]">>,
       <<"[", ":", "1", "]">>,
       <<"[", ":", "5", "]">>,
       <<"[", "0", ":", "2", "]">>,
       <<"[", "1", ":", "2", "]">>,
       <<"[", ":", ":", "0", "]">>,
       <<"[", "1", ":", "3", ":", "0", "]">>,
       <<"[", ":", ":", "1", "]">>,
       <<"[", ":", ":", "-", "1", "]">>,
       <<"[", ":", ":", "2", "]">>,
       <<"[", "0", "]">>,
       <<"[", "-", "1", "]">>,
       <<"[", "-", "3", "]">>,
       <<"a">>,
       <<"a", ".", "b">>,
       <<"a", ".", "b", ".", "c">>,
       <<"\"", "a", "\"", ".", "b">>,
       <<"\"", "a", "\"">>,
       <<"'", "s", "'">>,
       <<BQ, "1", BQ>>,
       <<BQ, "\\", BQ>>,
       <<"a", " ">>,
       <<"*">>,
       <<"a", " ", "|", " ", "b">>,
       <<"b">>,
       <<"x">>,
       <<"[", "s", "o", "r", "t", "_", "b", "y", "(", "a", ")", "]">>,
       <<"[", "s", "o", "r", "t", "_", "b", "y", "(", "a", ")", ",", " ", "b", "]">>
    }

(* The projection expressions: a projection followed by a chain of at most *)
(* two selectors and, possibly, by a pipe and one more selector.  Each     *)
(* selector is given with the text that denotes it.                        *)
ChainTokens ==
    { [text |-> <<".", "a">>, sel |-> new_identifier_selector(<<"a">>)],
      [text |-> <<".", "x">>, sel |-> new_identifier_selector(<<"x">>)],
      [text |-> <<"[", "0", "]">>, sel |-> new_index_selector(0)],
      [text |-> <<"[", "1", "]">>, sel |-> new_index_selector(1)],
      [text |-> <<"[", "1", ":", "]">>,
       sel |-> new_slice_selector(slice(1, NoEnd, 1))],
      [text |-> <<"[", "0", ":", "1", "]">>,
       sel |-> new_slice_selector(slice(0, SomeEnd(1), 1))] }

PipedTokens ==
    { [text |-> <<"|", "[", "0", "]">>, sel |-> new_index_selector(0)],
      [text |-> <<" ", "|", " ", "[", "0", "]">>, sel |-> new_index_selector(0)],
      [text |-> <<"|", "[", "1", ":", "]">>,
       sel |-> new_slice_selector(slice(1, NoEnd, 1))],
      [text |-> <<"|", "a">>, sel |-> new_identifier_selector(<<"a">>)] }

ProjectionPrefixes ==
    { [text |-> <<"[", "*", "]">>, kind |-> "list_projection", lhs |-> <<>>],
      [text |-> <<"a", "[", "*", "]">>, kind |-> "list_projection",
       lhs |-> <<new_identifier_selector(<<"a">>)>>],
      [text |-> <<"[", "]">>, kind |-> "flatten_projection", lhs |-> <<>>],
      [text |-> <<"*">>, kind |-> "object_projection", lhs |-> <<>>] }

ShortChains == {<<>>} \cup {<<t>> : t \in ChainTokens}

Chains == ShortChains \cup {<<t, u>> : t \in ChainTokens, u \in ChainTokens}

RECURSIVE TextOf(_)
TextOf(tokens) ==
    IF tokens = <<>> THEN <<>> ELSE Head(tokens).text \o TextOf(Tail(tokens))

RECURSIVE SelectorsOf(_)
SelectorsOf(tokens) ==
    IF tokens = <<>> THEN <<>> ELSE <<Head(tokens).sel>> \o SelectorsOf(Tail(tokens))

ProjectionCase(prefix, chain, piped) ==
    [path |-> prefix.text \o TextOf(chain) \o TextOf(piped),
     prefix |-> prefix, chain |-> chain, piped |-> piped]

(* After "*" the grammar wants a dot, so there the chain starts with a name. *)
WellFormed(prefix, chain) ==
    prefix.kind = "object_projection" =>
        (chain # <<>> /\ Head(Head(chain).text) = ".")

ProjectionCases ==
    { ProjectionCase(x[1], x[2], <<>>) :
        x \in {y \in ProjectionPrefixes \X Chains : WellFormed(y[1], y[2])} }
    \cup
    { ProjectionCase(x[1], x[2], <<x[3]>>) :
        x \in {y \in ProjectionPrefixes \X ShortChains \X PipedTokens :
                 WellFormed(y[1], y[2])} }

(* The filter expressions [?l cmp r]: an operand is a field of the element *)
(* or a literal.                                                           *)
Field(name) == [kind |-> "field", name |-> <<name>>]
Literal(text, value) == [kind |-> "literal", text |-> text, value |-> value]

OperandText(o) == IF o.kind = "field" THEN o.name ELSE o.text

Comparators ==
    { [text |-> <<"<">>, cmp |-> "cmp_lt"],
      [text |-> <<"<", "=">>, cmp |-> "cmp_lte"],
      [text |-> <<">">>, cmp |-> "cmp_gt"],
      [text |-> <<">", "=">>, cmp |-> "cmp_gte"],
      [text |-> <<"=", "=">>, cmp |-> "cmp_eq"],
      [text |-> <<"!", "=">>, cmp |-> "cmp_ne"] }

LeftOperands == {Field("a"), Field("b")}

RightOperands ==
    { Field("a"), Field("b"),
      Literal(<<BQ, "1", BQ>>, Num(1)),
      Literal(<<BQ, "2", BQ>>, Num(2)),
      Literal(<<"'", "s", "'">>, Str(<<"s">>)) }

FilterCases ==
    { [path |-> <<"[", "?">> \o OperandText(l) \o c.text \o OperandText(r) \o <<"]">>,
       cmp |-> c.cmp, l |-> l, r |-> r] :
        l \in LeftOperands, c \in Comparators, r \in RightOperands }

(* The index expressions [i].                                              *)
IndexCases ==
    { [path |-> <<"[", "0", "]">>, index |-> 0],
      [path |-> <<"[", "1", "]">>, index |-> 1],
      [path |-> <<"[", "2", "]">>, index |-> 2],
      [path |-> <<"[", "3", "]">>, index |-> 3],
      [path |-> <<"[", "-", "1", "]">>, index |-> -1],
      [path |-> <<"[", "-", "2", "]">>, index |-> -2],
      [path |-> <<"[", "-", "3", "]">>, index |-> -3],
      [path |-> <<"[", "-", "4", "]">>, index |-> -4] }

(* The calls of a function the registry does not hold: what precedes the   *)
(* name, the name, and what follows the opening parenthesis.               *)
UnknownNames == {<<"f", "o", "o">>, <<"a">>, <<"s", "o", "r", "t">>}

CallPrefixes == {<<>>, <<"a", ".">>, <<"a", "|">>, <<"[">>}

CallRests == {<<>>, <<")">>, <<"a", ")">>, <<"a", ",", "b", ")">>, <<"&">>}

UnknownCalls ==
    { [path |-> pre \o name \o <<"(">> \o rest, paren |-> Len(pre) + Len(name) + 1,
       open |-> IF pre = <<"[">> THEN 1 ELSE 0] :
        pre \in CallPrefixes, name \in UnknownNames, rest \in CallRests }

(* The calls of sort_by: the names given as arguments.                     *)
SortByArguments ==
    { <<"a">>, <<"x">>, <<"a", "b">>, <<"a", "a">>, <<"x", "a">>, <<"b", "a">>,
      <<"a", "b", "a">>, <<"a", "b", "x">> }

RECURSIVE ArgumentsText(_)
ArgumentsText(names) ==
    IF Len(names) = 1 THEN <<names[1]>>
    ELSE <<names[1], ",">> \o ArgumentsText(Tail(names))

SortByCalls ==
    { [path |-> <<"s", "o", "r", "t", "_", "b", "y", "(">> \o ArgumentsText(names) \o <<")">>,
       names |-> names] : names \in SortByArguments }

(* The filters whose right-hand operand is itself a projection, a          *)
(* multi-select or a call.                                                 *)
CompositeOperands ==
    { <<"[", "*", "]">>, <<"[", "]">>, <<"*", ".", "b">>, <<"[", "b", "]">>,
      <<"{", "b", ":", "a", "}">>,
      <<"s", "o", "r", "t", "_", "b", "y", "(", "b", ",", "a", ")">> }

CompositeFilters ==
    { [path |-> <<"[", "?", "a", "=", "=">> \o r \o <<"]">>, close |-> 6 + Len(r)] :
        r \in CompositeOperands }

(* The filters followed by one more selector.                              *)
FollowedFilters ==
    { [path |-> f.path \o t.text, filter |-> f, token |-> t] :
        f \in {g \in FilterCases : /\ g.l = Field("a")
                                  /\ g.cmp \in {"cmp_eq", "cmp_lt"}
                                  /\ g.r \in {Field("b"), Literal(<<BQ, "1", BQ>>, Num(1))}},
        t \in ChainTokens }

(* The list projections followed by a second [*].                          *)
DoubleProjections ==
    { [path |-> <<"[", "*", "]", "[", "*", "]">>, lhs |-> <<>>],
      [path |-> <<"a", "[", "*", "]", "[", "*", "]">>,
       lhs |-> <<new_identifier_selector(<<"a">>)>>] }

(* The calls sort_by(a,b) followed by one more selector.                   *)
FollowedCalls ==
    { [path |-> <<"s", "o", "r", "t", "_", "b", "y", "(", "a", ",", "b", ")">> \o t.text,
       token |-> t] : t \in ChainTokens }

(* The expressions with a quoted identifier: the names they select.        *)
QuotedCases ==
    { [path |-> <<"\"", "a", "\"">>, names |-> <<"a">>],
      [path |-> <<"\"", "x", "\"">>, names |-> <<"x">>],
      [path |-> <<"\"", "a", "\"", " ">>, names |-> <<"a">>],
      [path |-> <<"\"", "a", "\"", ".", "b">>, names |-> <<"a", "b">>],
      [path |-> <<"a", ".", "\"", "b", "\"">>, names |-> <<"a", "b">>],
      [path |-> <<"\"", "a", "\"", ".", "\"", "b", "\"">>, names |-> <<"a", "b">>] }

(* The raw strings: the text between the quotes and what it denotes.       *)
RawCases ==
    { [path |-> <<"'", "s", "'">>, content |-> <<"s">>],
      [path |-> <<"'", "a", "b", "'">>, content |-> <<"a", "b">>],
      [path |-> <<"'", "\\", "'", "'">>, content |-> <<"'">>],
      [path |-> <<"'", "a", "\\", "'", "b", "'">>, content |-> <<"a", "'", "b">>],
      [path |-> <<"'", "\\", "a", "'">>, content |-> <<"a">>] }

(* The JSON literals: the text between the back quotes and its value.      *)
LiteralCases ==
    { [path |-> <<BQ, "1", BQ>>, value |-> Num(1)],
      [path |-> <<BQ, "-", "1", "2", BQ>>, value |-> Num(-12)],
      [path |-> <<BQ, "\"", "s", "\"", BQ>>, value |-> Str(<<"s">>)],
      [path |-> <<BQ, "n", "u", "l", "l", BQ>>, value |-> Null],
      [path |-> <<BQ, "t", "r", "u", "e", BQ>>, value |-> Bool(TRUE)],
      [path |-> <<BQ, "\"", "\\", "n", "\"", BQ>>, value |-> Str(<<"\n">>)],
      [path |-> <<BQ, "\"", "a", "\\", "\"", "b", "\"", BQ>>,
       value |-> Str(<<"a", "\"", "b">>)] }

(* The multi-select-hashes: the value expressions and the declared keys.   *)
HashValues ==
    { <<"a">>, <<"a", "[", "0", "]">>, <<"a", ".", "b">>, <<"a", "[", "*", "]">>,
      <<"x", "[", "*", "]">>, <<"[", "]">>, <<"{", "y", ":", "a", "}">>,
      <<"s", "o", "r", "t", "_", "b", "y", "(", "a", ",", "b", ")">> }

HashCases ==
    { [path |-> <<"{", "k", ":">> \o v \o <<"}">>, keys |-> <<(<<"k">>)>>] :
        v \in HashValues }
    \cup
    { [path |-> <<"{", "k", ":", "b", ",", "x", ":">> \o v \o <<"}">>,
       keys |-> <<(<<"k">>), (<<"x">>)>>] : v \in HashValues }

(* Complete expressions followed by white space: the expression as a chain *)
(* of selectors, and what follows it.                                      *)
CompleteExpressions ==
    { [text |-> <<"a">>, sels |-> <<new_identifier_selector(<<"a">>)>>],
      [text |-> <<"a", ".", "b">>,
       sels |-> <<new_identifier_selector(<<"a">>), new_identifier_selector(<<"b">>)>>],
      [text |-> <<"[", "0", "]">>, sels |-> <<new_index_selector(0)>>],
      [text |-> <<"a", "[", "0", "]">>,
       sels |-> <<new_identifier_selector(<<"a">>), new_index_selector(0)>>],
      [text |-> <<"[", "1", ":", "]">>,
       sels |-> <<new_slice_selector(slice(1, NoEnd, 1))>>] }

WhiteSpaces ==
    { <<>>, <<" ">>, <<"\t">>, <<"\n">>, <<"\r">>, <<" ", " ">>, <<"\r", "\n">>,
      <<" ", "\n", "\t">> }

TrailingSpaceCases ==
    { [path |-> q.text \o w, sels |-> q.sels, space |-> w] :
        q \in CompleteExpressions, w \in WhiteSpaces }

(* The calls of sort_by that follow a selector and a dot, with or without   *)
(* a space after the comma.                                                *)
ChainedCalls ==
    { [path |-> <<before, ".", "s", "o", "r", "t", "_", "b", "y", "(", names[1], ",">>
                    \o space \o <<names[2], ")">>,
       before |-> before, names |-> names] :
        before \in {"a", "b"}, names \in {<<"b", "c">>, <<"a", "b">>},
        space \in {<<>>, <<" ">>} }

Paths ==
    ShortPaths \cup Scenarios \cup {c.path : c \in ChainedCalls}
                \cup {c.path : c \in ProjectionCases}
               \cup {c.path : c \in FilterCases}
               \cup {c.path : c \in IndexCases}
               \cup {c.path : c \in UnknownCalls}
               \cup {c.path : c \in SortByCalls}
               \cup {c.path : c \in CompositeFilters}
               \cup {c.path : c \in FollowedFilters}
               \cup {c.path : c \in DoubleProjections}
               \cup {c.path : c \in FollowedCalls}
               \cup {c.path : c \in QuotedCases}
               \cup {c.path : c \in RawCases}
               \cup {c.path : c \in LiteralCases}
               \cup {c.path : c \in HashCases}
               \cup {c.path : c \in TrailingSpaceCases}

S1(c) == <<c>>
Object1(k, v) == Obj(<<Member(S1(k), v)>>)
Object2(k1, v1, k2, v2) == Obj(<<Member(S1(k1), v1), Member(S1(k2), v2)>>)

Elements ==
    { Num(1), Str(S1("s")), Null,
      Object2("a", Num(1), "b", Num(2)),
      Object2("a", Num(2), "b", Num(1)),
      Object2("a", Str(S1("s")), "b", Num(1)),
      Object1("x", Arr(<<Num(1), Num(2)>>)),
      Arr(<<Num(1), Num(2)>>) }

Arrays == {Arr(a) : a \in UNION {[1..n -> Elements] : n \in 0..MaxArr}}

Documents ==
    { Num(1), Str(S1("x")), Null,
      Object2("a", Num(1), "b", Num(2)),
      Object1("a", Object1("b", Object1("c", Num(1)))),
      Object1("a", Object1("b", Arr(<<Object1("c", Num(2)), Object1("c", Num(1))>>))),
      Object1("a", Arr(<<Object1("b", Num(1)), Object1("c", Num(2)), Object1("b", Num(3))>>)),
      Object1("a", Arr(<<Object2("b", Num(1), "c", Num(1)), Object2("b", Num(1), "c", Num(2)),
                         Object2("b", Num(0), "c", Num(3))>>)),
      Obj(<<Member(<<"x", "s">>,
                   Arr(<<Object1("k", Str(S1("b"))), Object1("k", Str(S1("a")))>>))>>),
      Obj(<<Member(<<"x", "s">>,
                   Arr(<<Object1("n", Num(1)), Object1("n", Num(2)), Object1("n", Num(3))>>))>>),
      Arr(<<Arr(<<Arr(<<Num(1), Num(2)>>), Num(1)>>), Null, Num(2)>>) }

Docs == Documents \cup Arrays

-----------------------------------------------------------------------------

end_of_input ==
    /\ pc = "parse"
    /\ p > Len(path)
    /\ LET n == CloseIdentifier(Cur)
       IN /\ key_selector_stack' = n.ks
          /\ buffer' = n.buf
          /\ UNCHANGED <<path, sort_order, p, line, column, structure_offset_stack, a_slice>>
          /\ IF Len(n.ss) > 1
             THEN /\ ec' = "unexpected_end_of_input"
                  /\ pc' = "done"
                  /\ state_stack' = n.ss
                  /\ UNCHANGED <<root, root_on_entry, result>>
             ELSE IF ~(Len(n.ss) = 1 /\ Back(n.ss) \in {"expression", "sub_expression"})
             THEN /\ pc' = "throw"
                  /\ state_stack' = n.ss
                  /\ UNCHANGED <<root, root_on_entry, result, ec>>
             ELSE \E r \in Docs :
                    LET o == evaluate(Back(n.ks).selector, r, "")
                    IN /\ state_stack' = PopBack(n.ss)
                       /\ root_on_entry' = r
                       /\ root' = evaluate_leaves(Back(n.ks).selector, r, "")
                       /\ result' = IF Abnormal(o.v) THEN Null ELSE o.v
                       /\ ec' = o.ec
                       /\ pc' = ReturnOf(o)

(* evaluate(root, path, ec), the variant with an error code: an exception  *)
(* that leaves the call is caught and ec is set.  The catch block has no   *)
(* return statement, so what the caller receives is not defined: it may    *)
(* read as null or as anything else.                                       *)
Indeterminate == [t |-> "indeterminate"]

evaluate_catch ==
    /\ pc = "throw"
    /\ ec' = "unidentified_error"
    /\ \E r \in {Null, Indeterminate} : result' = r
    /\ pc' = "caught"
    /\ UNCHANGED <<path, root, root_on_entry, sort_order, p, line, column, state_stack,
                   structure_offset_stack, key_selector_stack, buffer, a_slice>>

(* The text holds a call: only then is std::sort reached.                  *)
calls(text) == \E i \in 1..Len(text) : text[i] = "("

Init ==
    /\ path \in Paths
    /\ root = Null
    /\ root_on_entry = Null
    /\ sort_order \in IF calls(path) THEN sort_orders ELSE {"kept"}
    /\ p = 1
    /\ line = 1
    /\ column = 1
    /\ state_stack = <<"start">>
    /\ structure_offset_stack = <<>>
    /\ key_selector_stack = <<key_selector(new_sub_expression)>>
    /\ buffer = <<>>
    /\ a_slice = slice_default
    /\ ec = ""
    /\ pc = "parse"
    /\ result = Null

Next ==
    \/ path_state_start
    \/ path_state_expression
    \/ path_state_key_expr
    \/ path_state_val_expr
    \/ path_state_identifier_or_function_expr
    \/ path_state_arg_or_right_paren
    \/ path_state_quoted_string
    \/ path_state_unquoted_string
    \/ path_state_raw_string
    \/ path_state_json_value
    \/ path_state_number
    \/ path_state_digit
    \/ path_state_sub_expression
    \/ path_state_bracket_specifier
    \/ path_state_multi_select_hash
    \/ path_state_bracket_specifier9
    \/ path_state_bracket_specifier2
    \/ path_state_bracket_specifier3
    \/ path_state_bracket_specifier4
    \/ path_state_key_val_expr
    \/ path_state_comparator
    \/ path_state_cmp_lt_or_lte
    \/ path_state_cmp_eq
    \/ path_state_cmp_gt_or_gte
    \/ path_state_cmp_ne
    \/ path_state_expect_dot
    \/ path_state_expect_right_bracket
    \/ path_state_expect_right_bracket4
    \/ path_state_expect_right_brace
    \/ path_state_expect_colon
    \/ end_of_input
    \/ evaluate_catch

Spec == Init /\ [][Next]_vars

-----------------------------------------------------------------------------
(* What the expressions mean, said without the selector classes: the value *)
(* of a name, of an index and of a slice with a start and an end that are  *)
(* not negative, and the value of a chain of them.                         *)

NonNull(s) == SelectSeq(s, LAMBDA x : x # Null)

Min(a, b) == IF a <= b THEN a ELSE b
Max(a, b) == IF a >= b THEN a ELSE b

HasMember(v, name) == is_object(v) /\ \E i \in 1..Len(v.o) : v.o[i].key = name

MemberValue(v, name) ==
    IF HasMember(v, name)
    THEN v.o[CHOOSE i \in 1..Len(v.o) : v.o[i].key = name].value
    ELSE Null

ValueOf(sel, v) ==
    CASE sel.kind = "identifier" ->
           IF is_object(v) THEN MemberValue(v, sel.identifier_)
           ELSE IF is_array(v)
           THEN LET objs == SelectSeq(v.a, LAMBDA x : HasMember(x, sel.identifier_))
                IN Arr([i \in 1..Len(objs) |-> MemberValue(objs[i], sel.identifier_)])
           ELSE Null
      [] sel.kind = "index" ->
           IF is_array(v) /\ sel.index_ >= 0 /\ sel.index_ < Len(v.a)
           THEN v.a[sel.index_ + 1] ELSE Null
      [] sel.kind = "slice" ->
           IF is_array(v)
           THEN Arr(SubSeq(v.a, sel.slice_.start_ + 1,
                           IF sel.slice_.end_.present
                           THEN Min(sel.slice_.end_.value, Len(v.a))
                           ELSE Len(v.a)))
           ELSE Null

RECURSIVE ChainValue(_, _)
ChainValue(selectors, v) ==
    IF selectors = <<>> THEN v
    ELSE ChainValue(Tail(selectors), ValueOf(Head(selectors), v))

RECURSIVE Flattened(_)
Flattened(s) ==
    IF s = <<>> THEN <<>>
    ELSE (IF is_array(Head(s)) THEN Head(s).a ELSE <<Head(s)>>) \o Flattened(Tail(s))

(* The elements a projection ranges over, or Null when its left-hand side  *)
(* has the wrong type.                                                     *)
ProjectedElements(prefix, r) ==
    LET lhs == ChainValue(prefix.lhs, r)
    IN CASE prefix.kind = "list_projection" ->
              IF is_array(lhs) THEN Arr(lhs.a) ELSE Null
         [] prefix.kind = "flatten_projection" ->
              IF is_array(lhs) THEN Arr(Flattened(lhs.a)) ELSE Null
         [] prefix.kind = "object_projection" ->
              IF is_object(lhs)
              THEN Arr([i \in 1..Len(lhs.o) |-> lhs.o[i].value]) ELSE Null

Projected(c, r) ==
    LET elems == ProjectedElements(c.prefix, r)
    IN IF elems = Null THEN Null
       ELSE Arr(NonNull([i \in 1..Len(elems.a) |->
                            ChainValue(SelectorsOf(c.chain), elems.a[i])]))

ExpectedProjection(c) ==
    [kind |-> c.prefix.kind,
     lhs_selector_ |-> [kind |-> "sub_expression", selectors_ |-> c.prefix.lhs],
     rhs_selectors_ |-> SelectorsOf(c.chain)]

ExpectedTree(c) ==
    IF c.piped = <<>> THEN ExpectedProjection(c)
    ELSE [kind |-> "pipe", lhs_selector_ |-> ExpectedProjection(c),
          rhs_selectors_ |-> SelectorsOf(c.piped)]

-----------------------------------------------------------------------------
(* C1: every iteration of the parser loop consumes a character, changes    *)
(* the state stack or returns with an error code, so that parsing ends.    *)
(* The code does not keep this: in multi_select_hash, json_value and       *)
(* arg_or_right_paren there are characters on which an iteration does      *)
(* none of the three.                                                      *)
C1_EveryIterationProgresses ==
    [][(pc = "parse" /\ p <= Len(path)) =>
           \/ p' > p
           \/ state_stack' # state_stack
           \/ (pc' = "done" /\ ec' # "")]_vars

(* C2: the selectors written after [*], [] or *. are attached to the       *)
(* right-hand chain of that projection, in order, and so are applied to    *)
(* each projected element; what follows a pipe is applied to the           *)
(* projection's result as a whole.                                         *)
C2_ChainAttachesToProjection ==
    \A c \in ProjectionCases :
        (pc = "done" /\ path = c.path) =>
            /\ ec = ""
            /\ Back(key_selector_stack).selector = ExpectedTree(c)
            /\ result = ChainValue(SelectorsOf(c.piped), Projected(c, root))

C2_Witness ==
    /\ pc = "done"
    /\ path = <<"[", "*", "]", ".", "x", "[", "1", ":", "]">>
    /\ root = Arr(<<Object1("x", Arr(<<Num(1), Num(2)>>)), Num(1)>>)
    /\ result = Arr(<<Arr(<<Num(2)>>)>>)

(* C3: on an array, [*].x | [0] is the first element of the array that     *)
(* [*].x gives, and [*].x[0] is the array of x[0] of each element.         *)
C3_PipeEndsProjection ==
    (pc = "done" /\ is_array(root)) =>
        LET x == new_identifier_selector(<<"x">>)
            xs == NonNull([i \in 1..Len(root.a) |-> ValueOf(x, root.a[i])])
            x0 == NonNull([i \in 1..Len(root.a) |->
                              ValueOf(new_index_selector(0), ValueOf(x, root.a[i]))])
        IN /\ path \in { <<"[", "*", "]", ".", "x", " ", "|", " ", "[", "0", "]">>,
                         <<"[", "*", "]", ".", "x", "|", "[", "0", "]">> } =>
                (ec = "" /\ result = IF xs = <<>> THEN Null ELSE xs[1])
           /\ path = <<"[", "*", "]", ".", "x", "[", "0", "]">> =>
                (ec = "" /\ result = Arr(x0))

C3_Witness ==
    /\ pc = "done"
    /\ path = <<"[", "*", "]", ".", "x", " ", "|", " ", "[", "0", "]">>
    /\ root = Arr(<<Num(1), Object1("x", Arr(<<Num(1), Num(2)>>))>>)
    /\ result = Arr(<<Num(1), Num(2)>>)

(* C4: {x: a, y: b} on {"a":1,"b":2} gives {"x":1,"y":2}, an object with   *)
(* one member for each key: expression pair, in the order written.  The    *)
(* code wraps the hash in a list projection and gives null on an object.   *)
C4_MultiSelectHashOnObject ==
    (pc = "done" /\ is_object(root)
       /\ path = <<"{", "x", ":", " ", "a", ",", " ", "y", ":", " ", "b", "}">>) =>
        /\ ec = ""
        /\ result = Obj(<<Member(<<"x">>, MemberValue(root, <<"a">>)),
                          Member(<<"y">>, MemberValue(root, <<"b">>))>>)

(* C5: sort_by(xs, &k) parses without error and gives a sorted copy of xs. *)
(* The code reports expected_identifier at the ampersand.                  *)
C5_SortByExpressionReference ==
    (pc # "parse"
       /\ path = <<"s", "o", "r", "t", "_", "b", "y", "(", "x", "s", ",", " ", "&", "k", ")">>) =>
        /\ pc = "done"
        /\ ec # "expected_identifier"
        /\ (root = Obj(<<Member(<<"x", "s">>,
                          Arr(<<Object1("k", Str(S1("b"))), Object1("k", Str(S1("a")))>>))>>)
              => (ec = "" /\ result = Arr(<<Object1("k", Str(S1("a"))),
                                           Object1("k", Str(S1("b")))>>)))

(* C6: on an array, [?l cmp r] gives the elements for which the comparison *)
(* of l and r, both evaluated on the element, holds, in their order; an    *)
(* ordering comparison holds only between two numbers, == and != are       *)
(* structural; on anything but an array the filter gives null.             *)
Operand(o, e) ==
    IF o.kind = "field" THEN ValueOf(new_identifier_selector(o.name), e) ELSE o.value

Holds(cmp, l, r) ==
    CASE cmp = "cmp_lt" -> is_number(l) /\ is_number(r) /\ l.n < r.n
      [] cmp = "cmp_lte" -> is_number(l) /\ is_number(r) /\ l.n <= r.n
      [] cmp = "cmp_gt" -> is_number(l) /\ is_number(r) /\ l.n > r.n
      [] cmp = "cmp_gte" -> is_number(l) /\ is_number(r) /\ l.n >= r.n
      [] cmp = "cmp_eq" -> l = r
      [] cmp = "cmp_ne" -> l # r

C6_FilterKeepsMatchingElements ==
    \A c \in FilterCases :
        (pc = "done" /\ path = c.path) =>
            /\ ec = ""
            /\ result =
                 IF is_array(root)
                 THEN Arr(SelectSeq(root.a,
                          LAMBDA e : Holds(c.cmp, Operand(c.l, e), Operand(c.r, e))))
                 ELSE Null

C6_Witness ==
    /\ pc = "done"
    /\ path = <<"[", "?", "a", "<", "b", "]">>
    /\ root = Arr(<<Object2("a", Num(2), "b", Num(1)), Object2("a", Num(1), "b", Num(2))>>)
    /\ result = Arr(<<Object2("a", Num(1), "b", Num(2))>>)

(* C7: a list projection gives null when its left-hand side is not an      *)
(* array; otherwise it gives the array of the non-null values of the       *)
(* right-hand chain on the elements, in the order of the elements.         *)
C7_ListProjectionKeepsOrder ==
    \A c \in ProjectionCases :
        (pc = "done" /\ path = c.path
           /\ c.prefix.kind = "list_projection" /\ c.piped = <<>>) =>
            LET xs == ChainValue(c.prefix.lhs, root)
                f(i) == ChainValue(SelectorsOf(c.chain), xs.a[i])
                kept == {i \in 1..Len(xs.a) : f(i) # Null}
            IN IF ~is_array(xs) THEN result = Null
               ELSE /\ is_array(result)
                    /\ Len(result.a) = Cardinality(kept)
                    /\ \A i \in kept :
                         result.a[Cardinality({j \in kept : j <= i})] = f(i)

C7_Witness ==
    /\ pc = "done"
    /\ path = <<"[", "*", "]", ".", "a">>
    /\ root = Arr(<<Object2("a", Num(2), "b", Num(1)), Str(S1("s"))>>)
    /\ result = Arr(<<Num(2)>>)

(* C8: a negative slice start resolves to max(0, n + start), so that       *)
(* [-k:] is the last k elements of the array, all of it when k >= n.  The  *)
(* code resolves it to n - start.                                          *)
StartCases ==
    { [path |-> <<"[", "-", "1", ":", "]">>, k |-> 1],
      [path |-> <<"[", "-", "2", ":", "]">>, k |-> 2],
      [path |-> <<"[", "-", "3", ":", "]">>, k |-> 3] }

C8_NegativeStartCountsFromEnd ==
    \A c \in StartCases :
        (pc # "parse" /\ is_array(root) /\ path = c.path) =>
            LET n == Len(root.a)
            IN /\ pc = "done"
               /\ ec = ""
               /\ result = Arr(SubSeq(root.a, Max(0, n - c.k) + 1, n))

(* C9: a slice end resolves to n when absent and otherwise to              *)
(* clamp(end >= 0 ? end : n + end, 0, n).  The code resolves a negative    *)
(* end to n - end, which it then cuts down to n.                           *)
EndCases ==
    { [path |-> <<"[", ":", "-", "1", "]">>, start |-> 0, end |-> SomeEnd(-1)],
      [path |-> <<"[", ":", "-", "2", "]">>, start |-> 0, end |-> SomeEnd(-2)],
      [path |-> <<"[", ":", "1", "]">>, start |-> 0, end |-> SomeEnd(1)],
      [path |-> <<"[", ":", "5", "]">>, start |-> 0, end |-> SomeEnd(5)],
      [path |-> <<"[", "0", ":", "2", "]">>, start |-> 0, end |-> SomeEnd(2)],
      [path |-> <<"[", "1", ":", "2", "]">>, start |-> 1, end |-> SomeEnd(2)],
      [path |-> <<"[", "1", ":", "]">>, start |-> 1, end |-> NoEnd] }

ResolvedEnd(end, n) ==
    IF ~end.present THEN n
    ELSE Max(0, Min(n, IF end.value >= 0 THEN end.value ELSE n + end.value))

C9_EndIsClamped ==
    \A c \in EndCases :
        (pc # "parse" /\ is_array(root) /\ path = c.path) =>
            /\ pc = "done"
            /\ ec = ""
            /\ result = Arr(SubSeq(root.a, c.start + 1, ResolvedEnd(c.end, Len(root.a))))

(* C10: a slice with step 0 is rejected when the expression is parsed,     *)
(* with invalid_number; no such slice is built or evaluated.  The code     *)
(* never looks at the step: it builds the slice and evaluates it.          *)
C10_StepZeroRejected ==
    (pc # "parse" /\ path \in { <<"[", ":", ":", "0", "]">>,
                                <<"[", "1", ":", "3", ":", "0", "]">> }) =>
        (pc = "done" /\ ec = "invalid_number")

(* C11: on every array, empty ones and ones holding null included, [::1]   *)
(* gives an array equal to the input and [::-1] gives its elements in      *)
(* reverse order.                                                          *)
Reverse(s) == [i \in 1..Len(s) |-> s[Len(s) + 1 - i]]

C11_StepOneAndMinusOne ==
    /\ (pc # "parse" /\ path = <<"[", ":", ":", "1", "]">>) =>
          (pc = "done" /\ ec = "" /\ (is_array(root) => result = root))
    /\ (pc # "parse" /\ path = <<"[", ":", ":", "-", "1", "]">>) =>
          (pc = "done" /\ ec = "" /\ (is_array(root) => result = Arr(Reverse(root.a))))

C11_Witness ==
    /\ pc = "done"
    /\ path = <<"[", ":", ":", "-", "1", "]">>
    /\ root = Arr(<<Null, Num(1)>>)
    /\ result = Arr(<<Num(1), Null>>)

(* C12: on an array of length n, [i] gives element i when 0 <= i < n,      *)
(* element n + i when -n <= i < 0, and null, with no error code and no     *)
(* exception, for every other i; on anything but an array it gives null.   *)
(* The code calls at() with n + i for every negative i, also when n + i is *)
(* negative.                                                               *)
C12_IndexOutOfRangeGivesNull ==
    \A c \in IndexCases :
        (pc # "parse" /\ path = c.path) =>
            /\ pc = "done"
            /\ ec = ""
            /\ result =
                 IF ~is_array(root) THEN Null
                 ELSE LET n == Len(root.a)
                      IN IF 0 <= c.index /\ c.index < n THEN root.a[c.index + 1]
                         ELSE IF 0 - n <= c.index /\ c.index < 0
                         THEN root.a[n + c.index + 1]
                         ELSE Null

(* C13: a selector that is neither a literal nor a function call gives     *)
(* null on null, and null or the empty array on a value of the wrong type, *)
(* without an exception and without an error code.                         *)
RECURSIVE TypedOnly(_)
TypedOnly(sel) ==
    CASE sel.kind \in {"json_value", "function"} -> FALSE
      [] sel.kind \in {"identifier", "index", "slice"} -> TRUE
      [] sel.kind \in {"sub_expression", "multi_select_list"} ->
           \A i \in 1..Len(sel.selectors_) : TypedOnly(sel.selectors_[i])
      [] sel.kind = "multi_select_hash" ->
           \A i \in 1..Len(sel.key_selectors_) : TypedOnly(sel.key_selectors_[i].selector)
      [] OTHER ->
           /\ TypedOnly(sel.lhs_selector_)
           /\ \A i \in 1..Len(sel.rhs_selectors_) : TypedOnly(sel.rhs_selectors_[i])

Scalars == {Num(1), Str(S1("x"))}

(* Expressions whose first selector is of each class, with the type each   *)
(* is made for.                                                            *)
TypedCases ==
    { [path |-> <<"a">>, wrong |-> Scalars],
      [path |-> <<"a", ".", "b">>, wrong |-> Scalars],
      [path |-> <<"[", "0", "]">>, wrong |-> Scalars \cup {Object2("a", Num(1), "b", Num(2))}],
      [path |-> <<"[", "1", ":", "]">>, wrong |-> Scalars \cup {Object2("a", Num(1), "b", Num(2))}],
      [path |-> <<"[", "*", "]">>, wrong |-> Scalars \cup {Object2("a", Num(1), "b", Num(2))}],
      [path |-> <<"[", "*", "]", ".", "a">>, wrong |-> Scalars \cup {Object2("a", Num(1), "b", Num(2))}],
      [path |-> <<"[", "]">>, wrong |-> Scalars \cup {Object2("a", Num(1), "b", Num(2))}],
      [path |-> <<"[", "?", "a", "=", "=", "b", "]">>,
       wrong |-> Scalars \cup {Object2("a", Num(1), "b", Num(2))}],
      [path |-> <<"*", ".", "a">>, wrong |-> Scalars \cup {Arr(<<>>), Arr(<<Num(1)>>)}],
      [path |-> <<"[", "a", ",", " ", "b", "]">>,
       wrong |-> Scalars \cup {Arr(<<>>), Arr(<<Num(1)>>)}] }

C13_TypeMismatchGivesNull ==
    /\ (pc # "parse" /\ state_stack = <<>> /\ root = Null
          /\ TypedOnly(Back(key_selector_stack).selector)) =>
            (pc = "done" /\ ec = "" /\ result = Null)
    /\ \A c \in TypedCases :
         (pc # "parse" /\ path = c.path) =>
            /\ ec = ""
            /\ root \in c.wrong => (pc = "done" /\ result \in {Null, Arr(<<>>)})

C13_Witness ==
    /\ pc = "done"
    /\ path = <<"a">>
    /\ root = Str(S1("x"))
    /\ result = Null
    /\ ec = ""

(* C14: whenever the search with an error code sets the error code, for a  *)
(* parse error, for a function argument error met while evaluating or for  *)
(* a caught exception, the value it returns is null.  The code goes on     *)
(* evaluating after a function has set the error code, and its catch block *)
(* returns nothing.                                                        *)
C14_ErrorCodeMeansNull ==
    (pc \in {"done", "caught"} /\ ec # "") => result = Null

(* C15: a pipe evaluates its left-hand side once and passes the result,    *)
(* whatever its type, once through the right-hand chain: a | b is member b *)
(* of member a.  The code gives null unless the left-hand side gives an    *)
(* array.                                                                  *)
C15_PipeThreadsAnyValue ==
    (pc # "parse" /\ path \in {<<"a", " ", "|", " ", "b">>, <<"a", "|", "a">>}) =>
        /\ pc = "done"
        /\ ec = ""
        /\ result = ValueOf(new_identifier_selector(<<Back(path)>>),
                            ValueOf(new_identifier_selector(<<"a">>), root))

(* C16: on an object, [e1, ..., en] gives the array of the values of the   *)
(* entries, written order kept and null kept; on anything but an object it *)
(* gives null.  The code puts the list inside a list projection, which     *)
(* gives null on an object and ranges over the elements of an array.       *)
C16_MultiSelectListOnObject ==
    (pc # "parse" /\ path = <<"[", "a", ",", " ", "b", "]">>) =>
        /\ pc = "done"
        /\ ec = ""
        /\ result = IF is_object(root)
                    THEN Arr(<<MemberValue(root, <<"a">>), MemberValue(root, <<"b">>)>>)
                    ELSE Null

(* C17: on an object, an object projection gives the non-null values of    *)
(* its right-hand chain on the member values, in the order of the members; *)
(* with an empty chain, as in * and a.*, it gives the member values; on    *)
(* anything but an object it gives null.  The code asks for a dot after    *)
(* every * and reports unexpected_end_of_input when the expression ends    *)
(* there.                                                                  *)
MemberValues(v) == [i \in 1..Len(v.o) |-> v.o[i].value]

C17_ObjectProjection ==
    /\ (pc # "parse" /\ path = <<"*">>) =>
          /\ pc = "done"
          /\ ec = ""
          /\ result = IF is_object(root) THEN Arr(MemberValues(root)) ELSE Null
    /\ (pc # "parse" /\ path = <<"a", ".", "*">>) =>
          /\ pc = "done"
          /\ ec = ""
          /\ result = LET a == ValueOf(new_identifier_selector(<<"a">>), root)
                      IN IF is_object(a) THEN Arr(MemberValues(a)) ELSE Null
    /\ \A c \in ProjectionCases :
          (pc # "parse" /\ path = c.path
             /\ c.prefix.kind = "object_projection" /\ c.piped = <<>>) =>
              /\ pc = "done"
              /\ ec = ""
              /\ result =
                   IF is_object(root)
                   THEN Arr(NonNull([i \in 1..Len(root.o) |->
                              ChainValue(SelectorsOf(c.chain), root.o[i].value)]))
                   ELSE Null

(* C18: k1.k2. ... .kn gives member kn of ... of member k1 of the input,   *)
(* and null as soon as a member is absent; a single name k gives v on      *)
(* {k: v}.  (What a name gives on an array is the matter of C20: here no   *)
(* array is met before the last name.)                                     *)
DottedCases ==
    { [path |-> <<"a">>, keys |-> <<"a">>],
      [path |-> <<"a", ".", "a">>, keys |-> <<"a", "a">>],
      [path |-> <<"a", ".", "b">>, keys |-> <<"a", "b">>],
      [path |-> <<"a", ".", "b", ".", "c">>, keys |-> <<"a", "b", "c">>] }

RECURSIVE Thread(_, _)
Thread(keys, v) ==
    IF keys = <<>> THEN v
    ELSE IF HasMember(v, <<Head(keys)>>)
    THEN Thread(Tail(keys), MemberValue(v, <<Head(keys)>>))
    ELSE Null

RECURSIVE NoArrayMet(_, _)
NoArrayMet(keys, v) ==
    keys = <<>> \/ (~is_array(v) /\ NoArrayMet(Tail(keys), MemberValue(v, <<Head(keys)>>)))

C19_FlattenOneLevel ==
    \A c \in ProjectionCases :
        (pc # "parse" /\ path = c.path
           /\ c.prefix.kind = "flatten_projection" /\ c.piped = <<>>) =>
            /\ pc = "done"
            /\ ec = ""
            /\ IF ~is_array(root) THEN result = Null
               ELSE LET flat == Flattened(root.a)
                        rhs(x) == ChainValue(SelectorsOf(c.chain), x)
                        kept == SelectSeq(flat, LAMBDA x : rhs(x) # Null)
                    IN /\ is_array(result)
                       /\ Len(result.a) = Len(kept)
                       /\ \A i \in 1..Len(kept) : result.a[i] = rhs(kept[i])

C19_Witness ==
    /\ pc = "done"
    /\ path = <<"[", "]">>
    /\ root = Arr(<<Arr(<<Arr(<<Num(1), Num(2)>>), Num(1)>>), Null, Num(2)>>)
    /\ result = Arr(<<Arr(<<Num(1), Num(2)>>), Num(1), Num(2)>>)

(* C20: the name selector gives the member of that name when the input is  *)
(* an object that has it; on an array it gives the array of that member of *)
(* every element that is an object having it, in order; in every other     *)
(* case, an object without the member included, it gives null.             *)
C20_IdentifierSelector ==
    \A name \in {<<"a">>, <<"b">>, <<"x">>} :
        (pc # "parse" /\ path = name) =>
            /\ pc = "done"
            /\ ec = ""
            /\ IF is_object(root)
               THEN \/ HasMember(root, name) /\ result = MemberValue(root, name)
                    \/ ~HasMember(root, name) /\ result = Null
               ELSE IF is_array(root)
               THEN LET having == {i \in 1..Len(root.a) : HasMember(root.a[i], name)}
                    IN /\ is_array(result)
                       /\ Len(result.a) = Cardinality(having)
                       /\ \A i \in having :
                            result.a[Cardinality({j \in having : j <= i})]
                              = MemberValue(root.a[i], name)
               ELSE result = Null

C20_Witness ==
    /\ pc = "done"
    /\ path = <<"a">>
    /\ root = Arr(<<Num(1), Object2("a", Num(2), "b", Num(1))>>)
    /\ result = Arr(<<Num(2)>>)

-----------------------------------------------------------------------------
(* C21: a call of a name the registry does not hold is rejected when its   *)
(* opening parenthesis is read: the call ends with function_name_not_found *)
(* and null, the cursor still on the parenthesis, no argument entry pushed *)
(* on the selector stack and no offset saved for it (the only offset is    *)
(* that of a bracket opened before the name); and that error code is       *)
(* reported nowhere else.                                                  *)
C21_UnknownFunctionRejected ==
    /\ \A c \in UnknownCalls :
         (pc # "parse" /\ path = c.path) =>
             /\ pc = "done"
             /\ ec = "function_name_not_found"
             /\ result = Null
             /\ p = c.paren
             /\ Len(structure_offset_stack) = c.open
             /\ Len(key_selector_stack) = 1 + c.open
             /\ \A i \in 1..Len(key_selector_stack) :
                    key_selector_stack[i].selector.kind # "function"
    /\ ec = "function_name_not_found" =>
         /\ pc = "done"
         /\ result = Null
         /\ p <= Len(path) /\ path[p] = "("
         /\ Back(state_stack) = "identifier_or_function_expr"

C21_Witness ==
    /\ pc = "done"
    /\ path = <<"f", "o", "o", "(">>
    /\ ec = "function_name_not_found"
    /\ result = Null
    /\ p = 4

-----------------------------------------------------------------------------
(* C22: sort_by called with a number of arguments other than two, or with  *)
(* a first argument that does not evaluate to an array, sets the error     *)
(* code invalid_argument and gives null; called with two arguments, the    *)
(* first of them an array, it sets no error code and gives an array.       *)
C22_SortByBadArguments ==
    \A c \in SortByCalls :
        (pc # "parse" /\ path = c.path) =>
            LET first == ValueOf(new_identifier_selector(<<c.names[1]>>), root)
            IN /\ pc = "done"
               /\ (Len(c.names) # 2 \/ ~is_array(first)) =>
                      (ec = "invalid_argument" /\ result = Null)
               /\ (Len(c.names) = 2 /\ is_array(first)) =>
                      (ec = "" /\ is_array(result) /\ Len(result.a) = Len(first.a))

C22_Witness ==
    /\ pc = "done"
    /\ path = <<"s", "o", "r", "t", "_", "b", "y", "(", "a", ",", "b", ")">>
    /\ root = Object2("a", Num(1), "b", Num(2))
    /\ ec = "invalid_argument"
    /\ result = Null

-----------------------------------------------------------------------------
-----------------------------------------------------------------------------
(* C24: whenever the loop has consumed the whole text, of any length, and  *)
(* the test of line 1702 reports no error code, the state stack holds the  *)
(* initial sub_expression alone, so that both assertions of lines 1708 to  *)
(* 1710 hold, the selector stack holds one entry, and the offset stack is  *)
(* empty.  The code leaves the state start on the stack when the text is   *)
(* empty, and the second assertion fails.                                  *)
C24_CleanEndOfParse ==
    (pc = "parse" /\ p > Len(path) /\ Len(CloseIdentifier(Cur).ss) <= 1) =>
        /\ CloseIdentifier(Cur).ss = <<"sub_expression">>
        /\ Len(CloseIdentifier(Cur).ks) = 1
        /\ CloseIdentifier(Cur).os = <<>>

-----------------------------------------------------------------------------
(* C25: at every step of the parse the state stack is not empty and the    *)
(* selector stack holds one entry at least; its bottom entry is the root   *)
(* of the expression: it carries no key, it is the one entry left when the *)
(* parse ends without an error code, and it is the selector evaluated.     *)
C25_StacksNeverEmpty ==
    /\ pc = "parse" =>
         /\ state_stack # <<>>
         /\ Len(key_selector_stack) >= 1
         /\ key_selector_stack[1].key = <<>>
    /\ (pc = "parse" /\ p > Len(path) /\ Len(CloseIdentifier(Cur).ss) <= 1) =>
         Back(CloseIdentifier(Cur).ks) = CloseIdentifier(Cur).ks[1]

C25_Witness ==
    /\ pc = "parse"
    /\ path = <<"s", "o", "r", "t", "_", "b", "y", "(", "a", ",", "b", ")">>
    /\ p = 12
    /\ Len(state_stack) = 2
    /\ Len(key_selector_stack) = 3
    /\ key_selector_stack[1].selector.kind = "function"

-----------------------------------------------------------------------------
(* C26: at every step of the parse the offsets are increasing from bottom  *)
(* to top and each is at least 1 and less than the size of the selector    *)
(* stack; there is one offset for each state on the state stack that       *)
(* awaits a closing delimiter, so that a closing delimiter pops the offset *)
(* its opener pushed and never reads an empty offset stack; and when the   *)
(* closing delimiter is read, the entry the offset designates is the       *)
(* composite being closed: below the arguments of a call the function      *)
(* selector, below the members of a list or a hash the projection that the *)
(* opening bracket or brace installed, and at the offset itself the filter. *)
(* In the code the right-hand operand of a filter is parsed into the       *)
(* filter's own entry, and an operand that is a projection replaces it.    *)
AwaitingClose ==
    {"arg_or_right_paren", "comparator", "cmp_lt_or_lte", "cmp_eq", "cmp_gt_or_gte",
     "cmp_ne", "expect_right_bracket", "expect_right_bracket4", "key_val_expr",
     "expect_colon", "expect_right_brace"}

Pending(ss) == SelectSeq(ss, LAMBDA st : st \in AwaitingClose)

C26_OffsetsMatchOpeners ==
    /\ pc # "undefined"
    /\ pc = "parse" =>
         LET os == structure_offset_stack
             ks == key_selector_stack
         IN /\ Len(Pending(state_stack)) = Len(os)
            /\ \A i \in 1..Len(os) :
                 /\ 1 <= os[i] /\ os[i] < Len(ks)
                 /\ i > 1 => os[i - 1] < os[i]
            /\ (p <= Len(path) /\ Back(state_stack) = "arg_or_right_paren"
                  /\ path[p] = ")") =>
                   ks[Back(os)].selector.kind = "function"
            /\ (p <= Len(path) /\ Back(state_stack) = "expect_right_bracket4"
                  /\ path[p] = "]") =>
                   ks[Back(os)].selector.kind = "list_projection"
            /\ (p <= Len(path) /\ Back(state_stack) = "expect_right_brace"
                  /\ path[p] = "}") =>
                   ks[Back(os)].selector.kind = "list_projection"
            /\ (p <= Len(path) /\ Back(state_stack) = "expect_right_bracket"
                  /\ path[p] = "]") =>
                   ks[Back(os) + 1].selector.kind = "filter"

-----------------------------------------------------------------------------
(* C27: a selector written after a filter is applied to each element that  *)
(* passed the filter, and the values that are not null are collected in    *)
(* order; it is not applied once to the array of the elements that passed. *)
(* In the code the closing bracket makes a sub_expression of the filter,   *)
(* and the selector that follows is applied to the filtered array.         *)
C27_SelectorAfterFilter ==
    \A c \in FollowedFilters :
        (pc = "done" /\ path = c.path /\ is_array(root)) =>
            LET passed == SelectSeq(root.a,
                              LAMBDA e : Holds(c.filter.cmp, Operand(c.filter.l, e),
                                               Operand(c.filter.r, e)))
            IN /\ ec = ""
               /\ result = Arr(NonNull([i \in 1..Len(passed) |->
                                           ValueOf(c.token.sel, passed[i])]))

-----------------------------------------------------------------------------
(* C28: a second [*] written after a list projection is applied to each    *)
(* element of the first: an element that is an array gives the array of    *)
(* its elements that are not null, an element that is not an array gives   *)
(* null and is dropped.  In the code the second [*] wraps the first        *)
(* projection as the left-hand side of a new projection over its result.   *)
Starred(e) == IF is_array(e) THEN Arr(NonNull(e.a)) ELSE Null

C28_SecondProjectionJoinsChain ==
    \A c \in DoubleProjections :
        (pc = "done" /\ path = c.path) =>
            LET xs == ChainValue(c.lhs, root)
            IN /\ ec = ""
               /\ result = IF is_array(xs)
                           THEN Arr(NonNull([i \in 1..Len(xs.a) |-> Starred(xs.a[i])]))
                           ELSE Null

-----------------------------------------------------------------------------
(* C29: a selector written after the closing parenthesis of sort_by(a,b)   *)
(* is applied to what the call gives, and the call is made with its two    *)
(* arguments: the error code is that of the call with two arguments and    *)
(* the result is the selector applied to its value.  In the code the       *)
(* selector is added to the function selector as a third argument.         *)
Argument(name) ==
    [kind |-> "sub_expression", selectors_ |-> <<new_identifier_selector(<<name>>)>>]

C29_SelectorAfterCall ==
    \A c \in FollowedCalls :
        (pc # "parse" /\ path = c.path) =>
            LET call == sort_by(root, <<Argument("a"), Argument("b")>>, "")
            IN /\ pc = "done"
               /\ ec = call.ec
               /\ result = ValueOf(c.token.sel, call.v)

-----------------------------------------------------------------------------
(* C30: a quoted identifier selects what the same name selects unquoted,   *)
(* wherever it stands in the expression, the whole expression and the last *)
(* token included: the expression parses with no error code and gives the  *)
(* value of the chain of its names.  In the code a quoted identifier that  *)
(* ends the text is never closed, and unexpected_end_of_input is reported. *)
C30_QuotedIdentifier ==
    \A c \in QuotedCases :
        (pc # "parse" /\ path = c.path) =>
            /\ pc = "done"
            /\ ec = ""
            /\ result = ChainValue([i \in 1..Len(c.names) |->
                                       new_identifier_selector(<<c.names[i]>>)], root)

-----------------------------------------------------------------------------
(* C31: inside a raw string a backslash protects the character after it:   *)
(* a backslash followed by a quote puts the quote into the content and the *)
(* raw string goes on to its closing quote, so the expression gives the    *)
(* string of the protected content with no error code.  In the code the    *)
(* backslash is skipped and the quote after it closes the raw string.      *)
C31_RawStringEscape ==
    \A c \in RawCases :
        (pc # "parse" /\ path = c.path) =>
            /\ pc = "done"
            /\ ec = ""
            /\ result = Str(c.content)

-----------------------------------------------------------------------------
(* C32: every character between the two back quotes of a JSON literal,     *)
(* the backslash of an escape sequence of a JSON string included, is       *)
(* collected, the text is parsed as one JSON value, and the expression     *)
(* gives that value on every document with no error code.  In the code     *)
(* the iteration that meets a backslash neither collects it nor moves on.  *)
C32_JsonLiteral ==
    \A c \in LiteralCases :
        (pc # "parse" /\ path = c.path) =>
            /\ pc = "done"
            /\ ec = ""
            /\ result = c.value

-----------------------------------------------------------------------------
(* C33: in a multi-select-hash every entry keeps the key declared for it,  *)
(* whatever its value expression: the expression parses with no error      *)
(* code, and every object the hash gives has the declared keys, in the     *)
(* order of declaration.  The hash is observed on an array of objects,     *)
(* where the code applies it to the elements.  In the code a value         *)
(* expression that replaces the entry of the selector stack (a projection, *)
(* a nested hash, a call) replaces it by an entry with an empty key.       *)
KeysOf(v) == [i \in 1..Len(v.o) |-> v.o[i].key]

C33_HashKeepsKeys ==
    \A c \in HashCases :
        (pc # "parse" /\ path = c.path) =>
            /\ pc = "done"
            /\ ec \in {"", "invalid_argument"}
            /\ (is_array(result) /\ is_array(root)) =>
                  \A i \in 1..Len(result.a) :
                      is_object(result.a[i]) /\ KeysOf(result.a[i]) = c.keys

-----------------------------------------------------------------------------
(* C34: white space after a complete expression does not change what it    *)
(* gives: an expression that gives a value with no error code gives the    *)
(* same value with no error code when spaces, tabs or line ends follow it. *)
(* In the code a name followed by exactly one white space character at the *)
(* end of the text is never closed, and unexpected_end_of_input is         *)
(* reported.                                                               *)
C34_TrailingWhiteSpace ==
    \A c \in TrailingSpaceCases :
        (pc # "parse" /\ path = c.path) =>
            /\ pc = "done"
            /\ ec = ""
            /\ result = ChainValue(c.sels, root)

-----------------------------------------------------------------------------
(* The slice selector with the width of int64_t kept.  The texts of Spec   *)
(* hold small numbers only, so its get_start, get_end and loops never      *)
(* leave the range of int64_t; a slice object can hold any int64_t, and    *)
(* the arithmetic below is the same arithmetic modulo 2^64.  A 64-bit value *)
(* is four 16-bit limbs, the least significant first, in two's complement. *)

Limb == 2 ^ 16

Int64s == [1..4 -> 0..(Limb - 1)]

RECURSIVE add_limbs(_, _, _, _)
add_limbs(x, y, i, carry) ==
    IF i > 4 THEN <<>>
    ELSE LET sum == x[i] + y[i] + carry
         IN <<sum % Limb>> \o add_limbs(x, y, i + 1, sum \div Limb)

(* x + y, x - y and -x of int64_t, wrapping.                               *)
Add64(x, y) == add_limbs(x, y, 1, 0)
Not64(x) == [i \in 1..4 |-> Limb - 1 - x[i]]
Neg64(x) == Add64(Not64(x), <<1, 0, 0, 0>>)
Sub64(x, y) == Add64(x, Neg64(y))

(* The int64_t of a small integer, and the std::size_t size as int64_t.    *)
Int64Of(n) ==
    IF n >= 0 THEN <<n % Limb, n \div Limb, 0, 0>>
    ELSE Neg64(<<(-n) % Limb, (-n) \div Limb, 0, 0>>)

INT64_MIN == <<0, 0, 0, Limb \div 2>>
INT64_MAX == <<Limb - 1, Limb - 1, Limb - 1, (Limb \div 2) - 1>>

IsNegative64(x) == x[4] >= Limb \div 2

RECURSIVE less_limbs(_, _, _)
less_limbs(x, y, i) ==
    IF i = 0 THEN FALSE
    ELSE IF x[i] # y[i] THEN x[i] < y[i]
    ELSE less_limbs(x, y, i - 1)

(* x < y of two int64_t.                                                   *)
Less64(x, y) ==
    IF IsNegative64(x) # IsNegative64(y) THEN IsNegative64(x)
    ELSE less_limbs(x, y, 4)

(* static_cast<std::size_t>(j) is below n: the cast of a negative j is at  *)
(* least 2^63.                                                             *)
IndexBelow(j, n) == j[4] = 0 /\ j[3] = 0 /\ j[2] = 0 /\ j[1] < n

get_start64(s, n) ==
    IF ~IsNegative64(s.start_) THEN s.start_ ELSE Sub64(Int64Of(n), s.start_)

get_end64(s, n) ==
    IF s.end_.present
    THEN LET len == IF ~IsNegative64(s.end_.value) THEN s.end_.value
                    ELSE Sub64(Int64Of(n), s.end_.value)
         IN IF ~Less64(Int64Of(n), len) THEN len ELSE Int64Of(n)
    ELSE Int64Of(n)

(* The two loops of slice_selector::evaluate, step # 0.  An index inside   *)
(* the array is read and the loop goes on; val[j] past the end is outside  *)
(* the array, OutOfRange.                                                  *)
RECURSIVE slice_loop_up64(_, _, _, _, _)
slice_loop_up64(val, j, end, step, acc) ==
    IF ~Less64(j, end) THEN acc
    ELSE IF ~IndexBelow(j, Len(val.a)) THEN OutOfRange
    ELSE slice_loop_up64(val, Add64(j, step), end, step,
                         push_back(acc, val.a[j[1] + 1]))

RECURSIVE slice_loop_down64(_, _, _, _, _)
slice_loop_down64(val, j, start, step, acc) ==
    IF Less64(j, start) THEN acc
    ELSE IF ~IndexBelow(j, Len(val.a)) THEN OutOfRange
    ELSE slice_loop_down64(val, Add64(j, step), start, step,
                           push_back(acc, val.a[j[1] + 1]))

slice_selector_evaluate64(s, val) ==
    IF is_array(val)
    THEN LET start == get_start64(s, Len(val.a))
             end == get_end64(s, Len(val.a))
         IN IF ~IsNegative64(s.step_)
            THEN slice_loop_up64(val, start, end, s.step_, Arr(<<>>))
            ELSE slice_loop_down64(val, Sub64(end, <<1, 0, 0, 0>>), start,
                                   s.step_, Arr(<<>>))
    ELSE Null

(* The slices: the ends of int64_t and the small values around zero; the   *)
(* step is never zero.                                                     *)
SliceValues == {INT64_MIN, INT64_MAX} \cup {Int64Of(n) : n \in -3..3}
SliceSteps == SliceValues \ {Int64Of(0)}
NoEnd64 == [present |-> FALSE, value |-> Int64Of(0)]
SliceEnds == {NoEnd64} \cup {SomeEnd(x) : x \in SliceValues}
Slices == {slice(b, e, s) : b \in SliceValues, e \in SliceEnds, s \in SliceSteps}
SliceArrays == {Arr([i \in 1..n |-> Num(i)]) : n \in 0..(MaxArr + 1)}

SliceInit ==
    /\ path = <<>>
    /\ root \in SliceArrays
    /\ root_on_entry = root
    /\ sort_order = "kept"
    /\ p = 1
    /\ line = 1
    /\ column = 1
    /\ state_stack = <<"start">>
    /\ structure_offset_stack = <<>>
    /\ key_selector_stack = <<key_selector(new_sub_expression)>>
    /\ buffer = <<>>
    /\ a_slice \in Slices
    /\ ec = ""
    /\ pc = "slice"
    /\ result = Null

(* slice_selector::evaluate on root: a read outside the array is undefined. *)
slice_evaluate ==
    /\ pc = "slice"
    /\ LET x == slice_selector_evaluate64(a_slice, root)
       IN IF x = OutOfRange
          THEN pc' = "undefined" /\ result' = Indeterminate
          ELSE pc' = "done" /\ result' = x
    /\ UNCHANGED <<path, root, root_on_entry, sort_order, p, line, column, state_stack,
                   structure_offset_stack, key_selector_stack, buffer,
                   a_slice, ec>>

SliceNext == slice_evaluate

SliceSpec == SliceInit /\ [][SliceNext]_vars

(* C35: evaluating a slice selector on an array of length n, for any       *)
(* 64-bit start, any optional 64-bit end and any non-zero 64-bit step,     *)
(* with the loop counter computed modulo 2^64, only ever reads array       *)
(* indices j with 0 <= j < n: the evaluation never reads outside the array. *)
C35_SliceReadsInRange == pc # "undefined"

(* The array [1, 2] sliced from 1 with step INT64_MAX: index 1 is read,    *)
(* the counter wraps to INT64_MIN, which is below end = 2, and the next    *)
(* read is outside the array.                                              *)
C35_StepWraps ==
    ~(/\ root = Arr(<<Num(1), Num(2)>>)
      /\ a_slice = slice(Int64Of(1), NoEnd64, INT64_MAX)
      /\ pc = "undefined")

-----------------------------------------------------------------------------
(* C36: when sort_by is called with exactly two argument selectors and the *)
(* first evaluates to an array, the result is a permutation of that        *)
(* array's elements in nondecreasing order of the key the second argument  *)
(* gives for each element, and elements with equal keys keep their         *)
(* original relative order.  Said with f, the place in the array of each   *)
(* element of the result.                                                  *)
Placements(n) ==
    {f \in [1..n -> 1..n] : \A i, j \in 1..n : f[i] = f[j] => i = j}

StableSorted(r, u, key_name) ==
    /\ Len(r) = Len(u)
    /\ \E f \in Placements(Len(u)) :
          /\ \A i \in 1..Len(u) : r[i] = u[f[i]]
          /\ \A i, j \in 1..Len(u) :
                i < j =>
                   LET ki == ValueOf(new_identifier_selector(<<key_name>>), r[i])
                       kj == ValueOf(new_identifier_selector(<<key_name>>), r[j])
                   IN /\ ~json_less(kj, ki)
                      /\ json_equal(ki, kj) => f[i] < f[j]

C36_SortByStable ==
    \A c \in SortByCalls :
        (/\ pc # "parse"
         /\ path = c.path
         /\ Len(c.names) = 2
         /\ is_array(ValueOf(new_identifier_selector(<<c.names[1]>>), root))) =>
            /\ pc = "done"
            /\ is_array(result)
            /\ StableSorted(result.a, ValueOf(new_identifier_selector(<<c.names[1]>>), root).a, c.names[2])

(* sort_by(a,b) on three elements whose keys are 1, 1 and 0: the two       *)
(* elements of key 1 come out in the other order.                          *)
C36_EqualKeysReordered ==
    ~(/\ path = <<"s", "o", "r", "t", "_", "b", "y", "(", "a", ",", "b", ")">>
      /\ root_on_entry = Object1("a", Arr(<<Object2("b", Num(1), "c", Num(1)),
                                            Object2("b", Num(1), "c", Num(2)),
                                            Object2("b", Num(0), "c", Num(3))>>))
      /\ pc = "done"
      /\ result = Arr(<<Object2("b", Num(0), "c", Num(3)),
                        Object2("b", Num(1), "c", Num(2)),
                        Object2("b", Num(1), "c", Num(1))>>))

-----------------------------------------------------------------------------
(* C37: a function call that follows other selectors in a chain, as in     *)
(* a.sort_by(b, c), is evaluated against the value produced by the         *)
(* selectors before it, and the selectors that precede the call in the     *)
(* same sub-expression are kept in the selector tree: the tree is the      *)
(* sub_expression of the identifier and the call, and the result is that   *)
(* of sort_by on the value of the identifier.                              *)
Sorted(r, u, key_name) ==
    /\ Len(r) = Len(u)
    /\ \E f \in Placements(Len(u)) :
          /\ \A i \in 1..Len(u) : r[i] = u[f[i]]
          /\ \A i, j \in 1..Len(u) :
                i < j => ~json_less(ValueOf(new_identifier_selector(<<key_name>>), r[j]),
                                    ValueOf(new_identifier_selector(<<key_name>>), r[i]))

C37_CallAfterSelectors ==
    \A c \in ChainedCalls :
        (pc # "parse" /\ path = c.path) =>
            LET before == ValueOf(new_identifier_selector(<<c.before>>), root)
                u == ValueOf(new_identifier_selector(<<c.names[1]>>), before)
                tree == Back(key_selector_stack).selector
            IN /\ pc = "done"
               /\ Len(key_selector_stack) = 1
               /\ tree.kind = "sub_expression"
               /\ Len(tree.selectors_) = 2
               /\ tree.selectors_[1] = new_identifier_selector(<<c.before>>)
               /\ tree.selectors_[2].kind = "function"
               /\ IF is_array(u)
                  THEN ec = "" /\ is_array(result) /\ Sorted(result.a, u.a, c.names[2])
                  ELSE ec = "invalid_argument" /\ result = Null

(* a.sort_by(b,c) on {"a":{"b":[{"c":2},{"c":1}]}}: the call is made on    *)
(* the document, where b is null, and ends with invalid_argument.          *)
C37_PrecedingSelectorLost ==
    ~(/\ path = <<"a", ".", "s", "o", "r", "t", "_", "b", "y", "(", "b", ",", "c", ")">>
      /\ root_on_entry = Object1("a", Object1("b", Arr(<<Object1("c", Num(2)),
                                                        Object1("c", Num(1))>>)))
      /\ pc = "done"
      /\ Back(key_selector_stack).selector.kind = "function"
      /\ ec = "invalid_argument"
      /\ result = Null)

=============================================================================
